---- MODULE Spec2Model ----
(***************************************************************************)
(* A model of gocnc: the GRBL streamer (streaming/grbl.go), the driver     *)
(* that runs it (main), the G-code interpreter (vm) and the optimizer      *)
(* passes (optimize).                                                      *)
(*                                                                         *)
(* Numbers with a fractional part are kept in fixed point with one decimal *)
(* digit: the model value 254 is the program value 25.4, the G word        *)
(* G59.1 is 591.                                                           *)
(***************************************************************************)
EXTENDS Integers, Sequences, FiniteSets, TLC

VARIABLES
    \* ---- GrblStreamer.Send (streaming/grbl.go) ----
    trace,          \* m.Positions as seen by Send: per Position, the byte lengths of the lines it expands to
    pc,             \* where Send is
    posIdx,         \* index of the Position the range loop is at
    lineIdx,        \* index of the next line of that Position
    list,           \* the pending FIFO: lines and checkpoints
    length,         \* the streamer's count of bytes in the controller buffer
    okCnt,          \* checkpoints cleared
    progress,       \* the values sent on the progress channel
    sendErr,        \* the error Send returns
    wire,           \* lines the controller has received and not yet answered
    respQ,          \* controller output not yet read by the streamer
    acked,          \* lines whose "ok" the streamer has read
    nReads,         \* calls of serialReader so far
    lastRead,       \* the controller output the last successful read returned
    nInfo,          \* informational lines produced so far
    nIOErr,         \* failed serial reads so far
    \* ---- the driver around Send (main) ----
    chanClosed,     \* the progress channel is closed
    mainPc,         \* the main goroutine
    sendPc,         \* the goroutine that runs Send
    proc,           \* the process: "running", "exited" or "crashed"
    resetSent,      \* Stop has written 0x18 to the port
    \* ---- the interpreter (vm) and the passes over its trace ----
    machine,        \* the vm.Machine, Positions included
    vmpc,           \* "process" while Process runs, then "done" or "error"
    doc,            \* the blocks Process has been given so far
    lastMove,       \* the last line move of performMove: what calcPos returned, and the offsets then
    lastRun,        \* the last step of Process: the machine before it and the error of run
    \* ---- the code generators (package export) ----
    gen,            \* the generator: its Position, ForceModeWrite, Tool and the lines it has put
    genLog,         \* the calls of HandlePosition so far: target, lines emitted, error
    checked,        \* the last call of Check: the trace and what it returned
    \* ---- the parser (package gcode) and Connect ----
    text,           \* an input text, the Document parsed from it, its export parsed again
    conn            \* Connect: where it is and what it has read from the port

sendVars == <<trace, pc, posIdx, lineIdx, list, length, okCnt, progress, sendErr,
              wire, respQ, acked, nReads, lastRead, nInfo, nIOErr>>
driverVars == <<chanClosed, mainPc, sendPc, proc, resetSent>>
genVars == <<gen, genLog, checked, text, conn>>
vmVars == <<machine, vmpc, doc, lastMove, lastRun, genVars>>
vars == <<sendVars, driverVars, vmVars>>

----------------------------------------------------------------------------
(* Bounds of the model *)

MaxPositions == 3
MaxDriverPositions == 2
MaxInfo == 1
MaxIOErr == 1

(* Program constants *)

GrblBuffer == 127

----------------------------------------------------------------------------
(* Helpers *)

RECURSIVE SumLen(_)
SumLen(s) == IF s = <<>> THEN 0 ELSE Head(s).len + SumLen(Tail(s))

SeqsUpTo(S, n) == UNION {[1..k -> S] : k \in 0..n}

\* The line expansions a Position can have: no line (nothing changed), one
\* line, or two lines (a state change and a move).
PosLines == {<<>>, <<40>>, <<100>>, <<64, 64>>}

Line(p, k) == [kind |-> "line", pos |-> p, k |-> k, len |-> trace[p][k]]
Checkpoint == [kind |-> "cp"]

Msgs == {"foo", "bar"}

----------------------------------------------------------------------------
(* The controller: it answers the lines it received in order, one response *)
(* per line, and may print informational lines in between.                 *)

CtlAnswer ==
    /\ proc = "running"
    /\ wire # <<>>
    /\ \E t \in {"ok", "error", "alarm"} : \E m \in Msgs :
          respQ' = Append(respQ, [t |-> t, msg |-> IF t = "ok" THEN "" ELSE m,
                                  line |-> Head(wire)])
    /\ wire' = Tail(wire)
    /\ UNCHANGED <<trace, pc, posIdx, lineIdx, list, length, okCnt, progress, sendErr,
                   acked, nReads, lastRead, nInfo, nIOErr, driverVars, vmVars>>

CtlInfo ==
    /\ proc = "running"
    /\ nInfo < MaxInfo
    /\ respQ' = Append(respQ, [t |-> "other", msg |-> "", line |-> Checkpoint])
    /\ nInfo' = nInfo + 1
    /\ UNCHANGED <<trace, pc, posIdx, lineIdx, list, length, okCnt, progress, sendErr,
                   wire, acked, nReads, lastRead, nIOErr, driverVars, vmVars>>

----------------------------------------------------------------------------
(* GrblStreamer.Send *)

\* serialReader: the result of one ReadBytes('\n'), failed or not.
serialReader(failed, raw) ==
    IF failed THEN [level |-> "serial-error", message |-> "io"]
    ELSE IF raw.t = "ok" THEN [level |-> "ok", message |-> ""]
    ELSE IF raw.t = "error" THEN [level |-> "error", message |-> raw.msg]
    ELSE IF raw.t = "alarm" THEN [level |-> "alarm", message |-> raw.msg]
    ELSE [level |-> "info", message |-> raw.msg]

\* The deferred function of Send: close(progress), and a panic becomes the
\* returned error.
SendReturns(err) ==
    /\ sendErr' = err
    /\ chanClosed' = TRUE

\* "If Grbl is full...": the condition of the loop around HandleRes in Write.
WindowFull == length > GrblBuffer

\* Send is inside one of its two loops that call HandleRes.
InHandleResLoop ==
    \/ pc = "full" /\ WindowFull
    \/ pc = "drain" /\ okCnt < Len(trace)

\* HandleRes, list[0] is a checkpoint: report progress. (len(list) == 0
\* returns at once; it cannot happen inside the two loops.)
HandleResCheckpoint ==
    /\ list # <<>> /\ Head(list).kind = "cp"
    /\ mainPc = "recv"            \* progress is unbuffered: main receives
    /\ list' = Tail(list)
    /\ progress' = Append(progress, okCnt)
    /\ okCnt' = okCnt + 1
    /\ UNCHANGED <<trace, pc, posIdx, lineIdx, length, sendErr, wire, respQ, acked,
                   nReads, lastRead, nInfo, nIOErr, driverVars, vmVars>>

\* HandleRes, list[0] is a line: read one response and act on its level.
HandleResRead(failed) ==
    /\ list # <<>> /\ Head(list).kind = "line"
    /\ IF failed THEN nIOErr < MaxIOErr /\ nIOErr' = nIOErr + 1 /\ respQ' = respQ
                 ELSE respQ # <<>> /\ respQ' = Tail(respQ) /\ nIOErr' = nIOErr
    /\ nReads' = nReads + 1
    /\ lastRead' = IF failed THEN lastRead ELSE Head(respQ)
    /\ LET res == serialReader(failed, IF failed THEN Checkpoint ELSE Head(respQ)) IN
         CASE res.level \in {"error", "alarm"} ->
                /\ SendReturns([kind |-> res.level, message |-> res.message,
                                block |-> Head(list)])
                /\ pc' = "failed"
                /\ UNCHANGED <<list, length, acked>>
           [] res.level = "info" ->
                UNCHANGED <<list, length, acked, pc, sendErr, chanClosed>>
           [] OTHER ->
                /\ list' = Tail(list)
                /\ length' = length - Head(list).len
                /\ acked' = IF res.level = "ok" THEN acked \cup {Head(respQ).line}
                                                ELSE acked
                /\ UNCHANGED <<pc, sendErr, chanClosed>>
    /\ UNCHANGED <<trace, posIdx, lineIdx, okCnt, progress, wire, nInfo,
                   mainPc, sendPc, proc, resetSent, vmVars>>

HandleRes ==
    /\ proc = "running"
    /\ InHandleResLoop
    /\ \/ HandleResCheckpoint
       \/ HandleResRead(FALSE)
       \/ HandleResRead(TRUE)

\* gen.Write up to the loop: count the line and queue it.
BeginWrite ==
    /\ proc = "running"
    /\ pc = "emit" /\ posIdx <= Len(trace) /\ lineIdx <= Len(trace[posIdx])
    /\ length' = length + trace[posIdx][lineIdx]
    /\ list' = Append(list, Line(posIdx, lineIdx))
    /\ pc' = "full"
    /\ UNCHANGED <<trace, posIdx, lineIdx, okCnt, progress, sendErr, wire, respQ, acked,
                   nReads, lastRead, nInfo, nIOErr, driverVars, vmVars>>

\* gen.Write after the loop: WriteString and Flush succeed.
WriteLine ==
    /\ proc = "running"
    /\ pc = "full" /\ ~WindowFull
    /\ wire' = Append(wire, Line(posIdx, lineIdx))
    /\ lineIdx' = lineIdx + 1
    /\ pc' = "emit"
    /\ UNCHANGED <<trace, posIdx, list, length, okCnt, progress, sendErr, respQ, acked,
                   nReads, lastRead, nInfo, nIOErr, driverVars, vmVars>>

\* gen.Write after the loop: WriteString or Flush fails and Write panics.
WriteFails ==
    /\ proc = "running"
    /\ pc = "full" /\ ~WindowFull
    /\ SendReturns([kind |-> "write", message |-> "io", block |-> Line(posIdx, lineIdx)])
    /\ pc' = "failed"
    /\ UNCHANGED <<trace, posIdx, lineIdx, list, length, okCnt, progress, wire, respQ,
                   acked, nReads, lastRead, nInfo, nIOErr, mainPc, sendPc, proc, resetSent, vmVars>>

\* HandlePosition has returned: queue the checkpoint of the Position.
EndPosition ==
    /\ proc = "running"
    /\ pc = "emit" /\ posIdx <= Len(trace) /\ lineIdx > Len(trace[posIdx])
    /\ list' = Append(list, Checkpoint)
    /\ posIdx' = posIdx + 1
    /\ lineIdx' = 1
    /\ UNCHANGED <<trace, pc, length, okCnt, progress, sendErr, wire, respQ, acked,
                   nReads, lastRead, nInfo, nIOErr, driverVars, vmVars>>

\* The range loop is over: go on to drain the acknowledgments.
BeginDrain ==
    /\ proc = "running"
    /\ pc = "emit" /\ posIdx > Len(trace)
    /\ pc' = "drain"
    /\ UNCHANGED <<trace, posIdx, lineIdx, list, length, okCnt, progress, sendErr, wire,
                   respQ, acked, nReads, lastRead, nInfo, nIOErr, driverVars, vmVars>>

\* The drain loop is over: return nil.
ReturnNil ==
    /\ proc = "running"
    /\ pc = "drain" /\ okCnt >= Len(trace)
    /\ pc' = "done"
    /\ SendReturns([kind |-> "nil", message |-> "", block |-> Checkpoint])
    /\ UNCHANGED <<trace, posIdx, lineIdx, list, length, okCnt, progress, wire, respQ,
                   acked, nReads, lastRead, nInfo, nIOErr, mainPc, sendPc, proc, resetSent, vmVars>>

NoError == [kind |-> "none", message |-> "", block |-> Checkpoint]

InitSendWith(traces) ==
    /\ trace \in traces
    /\ posIdx = 1 /\ lineIdx = 1
    /\ list = <<>> /\ length = 0 /\ okCnt = 0
    /\ progress = <<>> /\ sendErr = NoError
    /\ wire = <<>> /\ respQ = <<>> /\ acked = {}
    /\ nReads = 0 /\ nInfo = 0 /\ nIOErr = 0
    /\ lastRead = [t |-> "none", msg |-> "", line |-> Checkpoint]
    /\ chanClosed = FALSE /\ mainPc = "recv" /\ sendPc = "send"
    /\ proc = "running" /\ resetSent = FALSE

\* No generator is at work while the other specifications run.
TextIdle == text = [stage |-> "none"] /\ conn = [pc |-> "none"]

GenIdle ==
    /\ gen = [dialect |-> "none"] /\ genLog = [n |-> 0] /\ checked = [done |-> FALSE]
    /\ TextIdle

\* No program is interpreted while the streamer specifications run.
VMIdle ==
    /\ machine = [Positions |-> <<>>]
    /\ vmpc = "idle" /\ doc = <<>>
    /\ lastMove = [set |-> FALSE]
    /\ lastRun = [ran |-> FALSE]
    /\ GenIdle

InitSend == InitSendWith(SeqsUpTo(PosLines, MaxPositions)) /\ pc = "emit" /\ VMIdle

SendStep ==
    \/ BeginWrite
    \/ HandleRes
    \/ WriteLine
    \/ WriteFails
    \/ EndPosition
    \/ BeginDrain
    \/ ReturnNil

NextSend ==
    \/ SendStep
    \/ CtlAnswer
    \/ CtlInfo

SpecSend == InitSend /\ [][NextSend]_vars

----------------------------------------------------------------------------
(* The driver around Send: main starts Send in a goroutine and ranges over *)
(* the progress channel; a third goroutine handles the interrupt signal.   *)

\* GrblStreamer.Stop: write the soft reset 0x18 and close the port.
Stop == resetSent' = TRUE

\* close(progress): closing a closed channel panics, and a panic nobody
\* recovers ends the process.
ClosePanics == chanClosed

\* The goroutine of Send, after Send has returned an error: print it,
\* close(progress), s.Stop(), os.Exit(2).
SendFailed ==
    /\ proc = "running"
    /\ sendPc = "send" /\ pc = "failed"
    /\ sendPc' = "end"
    /\ IF ClosePanics
         THEN proc' = "crashed" /\ UNCHANGED <<chanClosed, resetSent>>
         ELSE chanClosed' = TRUE /\ Stop /\ proc' = "exited"
    /\ UNCHANGED <<sendVars, mainPc, vmVars>>

\* The goroutine of Send, after Send has returned nil: it ends.
SendSucceeded ==
    /\ proc = "running"
    /\ sendPc = "send" /\ pc = "done"
    /\ sendPc' = "end"
    /\ UNCHANGED <<sendVars, chanClosed, mainPc, proc, resetSent, vmVars>>

\* main: the range over progress ends when the channel is closed; main
\* finishes the progress bar, prints the time and returns.
MainReturns ==
    /\ proc = "running"
    /\ mainPc = "recv" /\ chanClosed
    /\ mainPc' = "done"
    /\ proc' = "exited"
    /\ UNCHANGED <<sendVars, chanClosed, sendPc, resetSent, vmVars>>

\* The signal goroutine on os.Interrupt: close(progress), s.Stop(),
\* os.Exit(5).
Interrupt ==
    /\ proc = "running"
    /\ IF ClosePanics
         THEN proc' = "crashed" /\ UNCHANGED <<chanClosed, resetSent>>
         ELSE chanClosed' = TRUE /\ Stop /\ proc' = "exited"
    /\ UNCHANGED <<sendVars, mainPc, sendPc, vmVars>>

InitDriver == InitSendWith(SeqsUpTo(PosLines, MaxDriverPositions)) /\ pc = "emit" /\ VMIdle

NextDriver ==
    \/ SendStep
    \/ CtlAnswer
    \/ CtlInfo
    \/ SendFailed
    \/ SendSucceeded
    \/ MainReturns
    \/ Interrupt

SpecDriver == InitDriver /\ [][NextDriver]_vars

\* C5: when streaming fails (Send returned an error), the driver has sent
\* the soft reset through Stop by the time the process has terminated.
C5_ResetOnFailure ==
    (proc # "running" /\ sendErr.kind \notin {"none", "nil"}) => resetSent

----------------------------------------------------------------------------
(* The streamer as a code generator: GrblStreamer.Init installs a Write    *)
(* that sends one line and reads one response; main hands it the Positions *)
(* one by one (HandlePositionAtIndex) and stops on the first error.        *)

\* main: HandlePositionAtIndex returned an error: s.Stop(), panic(err).
StreamFailed(err) ==
    /\ sendErr' = err
    /\ Stop
    /\ proc' = "crashed"
    /\ pc' = "failed"

\* Write: WriteString and Flush succeed; handleRes(str) is entered.
SyncWrite ==
    /\ proc = "running"
    /\ pc = "semit" /\ posIdx <= Len(trace) /\ lineIdx <= Len(trace[posIdx])
    /\ wire' = Append(wire, Line(posIdx, lineIdx))
    /\ pc' = "swait"
    /\ UNCHANGED <<trace, posIdx, lineIdx, list, length, okCnt, progress, sendErr, respQ,
                   acked, nReads, lastRead, nInfo, nIOErr, driverVars, vmVars>>

\* Write: WriteString or Flush fails and Write panics.
SyncWriteFails ==
    /\ proc = "running"
    /\ pc = "semit" /\ posIdx <= Len(trace) /\ lineIdx <= Len(trace[posIdx])
    /\ StreamFailed([kind |-> "write", message |-> "io", block |-> Line(posIdx, lineIdx)])
    /\ UNCHANGED <<trace, posIdx, lineIdx, list, length, okCnt, progress, wire, respQ,
                   acked, nReads, lastRead, nInfo, nIOErr, chanClosed, mainPc, sendPc, vmVars>>

\* handleRes(str): read one response; error and alarm panic, anything else
\* returns and Write returns with it.
handleRes(failed) ==
    /\ proc = "running"
    /\ pc = "swait"
    /\ IF failed THEN nIOErr < MaxIOErr /\ nIOErr' = nIOErr + 1 /\ respQ' = respQ
                 ELSE respQ # <<>> /\ respQ' = Tail(respQ) /\ nIOErr' = nIOErr
    /\ nReads' = nReads + 1
    /\ lastRead' = IF failed THEN lastRead ELSE Head(respQ)
    /\ LET res == serialReader(failed, IF failed THEN Checkpoint ELSE Head(respQ)) IN
         IF res.level \in {"error", "alarm"}
         THEN /\ StreamFailed([kind |-> res.level, message |-> res.message,
                               block |-> Line(posIdx, lineIdx)])
              /\ UNCHANGED <<lineIdx, acked>>
         ELSE /\ lineIdx' = lineIdx + 1
              /\ pc' = "semit"
              /\ acked' = IF res.level = "ok" THEN acked \cup {Head(respQ).line}
                                              ELSE acked
              /\ UNCHANGED <<sendErr, resetSent, proc>>
    /\ UNCHANGED <<trace, posIdx, list, length, okCnt, progress, wire, nInfo,
                   chanClosed, mainPc, sendPc, vmVars>>

SyncRead == handleRes(FALSE)

SyncReadFails == handleRes(TRUE)

\* main: HandlePositionAtIndex returned nil: the progress bar advances.
SyncEndPosition ==
    /\ proc = "running"
    /\ pc = "semit" /\ posIdx <= Len(trace) /\ lineIdx > Len(trace[posIdx])
    /\ progress' = Append(progress, posIdx - 1)
    /\ posIdx' = posIdx + 1
    /\ lineIdx' = 1
    /\ UNCHANGED <<trace, pc, list, length, okCnt, sendErr, wire, respQ, acked,
                   nReads, lastRead, nInfo, nIOErr, driverVars, vmVars>>

\* main: the loop over the Positions is over; main returns.
SyncFinish ==
    /\ proc = "running"
    /\ pc = "semit" /\ posIdx > Len(trace)
    /\ pc' = "done"
    /\ proc' = "exited"
    /\ UNCHANGED <<trace, posIdx, lineIdx, list, length, okCnt, progress, sendErr, wire,
                   respQ, acked, nReads, lastRead, nInfo, nIOErr, chanClosed, mainPc,
                   sendPc, resetSent, vmVars>>

InitSync == InitSendWith(SeqsUpTo(PosLines, MaxPositions)) /\ pc = "semit" /\ VMIdle

NextSync ==
    \/ SyncWrite
    \/ SyncWriteFails
    \/ SyncRead
    \/ SyncReadFails
    \/ SyncEndPosition
    \/ SyncFinish
    \/ CtlAnswer
    \/ CtlInfo

SpecSync == InitSync /\ [][NextSync]_vars

----------------------------------------------------------------------------
(* Properties of Send *)

\* The lines written to the controller whose "ok" the streamer has not read:
\* those the controller has not answered and those whose answer is unread.
RECURSIVE AnsweredLines(_)
AnsweredLines(q) ==
    IF q = <<>> THEN <<>>
    ELSE IF Head(q).t = "other" THEN AnsweredLines(Tail(q))
    ELSE <<Head(q).line>> \o AnsweredLines(Tail(q))

Unacknowledged == AnsweredLines(respQ) \o wire

Outstanding == SumLen(Unacknowledged)

\* C1: while Send streams, the bytes of the lines written and not yet
\* acknowledged never exceed the 127 bytes of the controller's buffer.
C1_WindowNeverExceeded == Outstanding <= GrblBuffer

\* As long as no serial read has failed the window is respected.
WindowRespectedWithoutReadFailure == nIOErr = 0 => Outstanding <= GrblBuffer

\* C2: when Send aborts on an error or alarm response, the error carries the
\* controller's message and the line that response answers, which is the
\* oldest pending line of the FIFO.
C2_ErrorNamesItsLine ==
    sendErr.kind \in {"error", "alarm"} =>
        /\ sendErr.message = lastRead.msg
        /\ sendErr.block = Head(list)
        /\ sendErr.block = lastRead.line

ErrorNamesItsLineWithoutReadFailure == nIOErr = 0 => C2_ErrorNamesItsLine

\* C3: a failed serial read makes Send fail, and it is not counted as the
\* acknowledgment of a pending line (the FIFO and the byte count stay).
C3_ReadFailureIsFatal ==
    [][nIOErr' # nIOErr =>
         /\ pc' = "failed"
         /\ sendErr'.kind \notin {"none", "nil"}
         /\ list' = list /\ length' = length]_vars

\* C4: progress is reported once per Position, in trace order; the report
\* of a Position comes after every line of it and of the earlier Positions
\* was acknowledged; Send returns nil only after the last report.
C4_ProgressPerPosition ==
    /\ Len(progress) <= Len(trace)
    /\ \A i \in 1..Len(progress) : progress[i] = i - 1
    /\ \A p \in 1..Len(progress) : \A k \in 1..Len(trace[p]) : Line(p, k) \in acked
    /\ pc = "done" => Len(progress) = Len(trace)

ProgressPerPositionWithoutReadFailure == nIOErr = 0 => C4_ProgressPerPosition

\* The first line at or after line k of Position p, as <<p, k>>; <<0, 0>>
\* when there is none.
RECURSIVE LineFrom(_, _)
LineFrom(p, k) ==
    IF p > Len(trace) THEN <<0, 0>>
    ELSE IF k <= Len(trace[p]) THEN <<p, k>>
    ELSE LineFrom(p + 1, 1)

\* The line the streamer is to write next, while it is reading a response
\* before writing it.
LineWaiting ==
    IF pc = "full" /\ WindowFull THEN <<posIdx, lineIdx>>
    ELSE IF pc = "swait" THEN LineFrom(posIdx, lineIdx + 1)
    ELSE <<0, 0>>

\* C6: the streamer keeps the buffer full instead of waiting for the
\* response to each line: it is never waiting for a response before a write
\* when the unacknowledged bytes plus the next line fit in the 127 bytes.
C6_NoWaitWhileRoom ==
    LineWaiting # <<0, 0>> =>
        Outstanding + trace[LineWaiting[1]][LineWaiting[2]] > GrblBuffer

----------------------------------------------------------------------------
(* The interpreter (package vm).  Lengths, feedrates and word values are   *)
(* fixed-point numbers with one decimal digit: 254 is 25.4 and the word    *)
(* G59.1 has the command 591.                                              *)

MoveModeNone == 0
MoveModeRapid == 1
MoveModeLinear == 2
MoveModeCWArc == 3
MoveModeCCWArc == 4
MoveModeDwell == 5

FeedModeUnitsMin == 0
FeedModeUnitsRev == 1
FeedModeInvTime == 2

CutCompModeNone == 0
CutCompModeOuter == 1
CutCompModeInner == 2

PlaneXY == 0
PlaneXZ == 1
PlaneYZ == 2

\* A gcode.Word; a gcode.Block is its sequence of Nodes and BlockDelete.
W(address, command) == [a |-> address, c |-> command]
G(n) == W("G", 10 * n)
M(n) == W("M", 10 * n)

Zero == <<0, 0, 0>>
Sum(u, v) == <<u[1] + v[1], u[2] + v[2], u[3] + v[3]>>
Diff(u, v) == <<u[1] - v[1], u[2] - v[2], u[3] - v[3]>>

\* int(val) of a float64: truncation towards zero.
int(val) == IF val >= 0 THEN val \div 10 ELSE -((-val) \div 10)

\* val *= 25.4 (exact for the whole numbers of inches the programs use).
Inches(val) == IF val >= 0 THEN (val * 254) \div 10 ELSE -(((-val) * 254) \div 10)

\* Block.GetWord: the value of the only word of the address; an error when
\* there is none or more than one.
WordsAt(stmt, address) == SelectSeq(stmt, LAMBDA w : w.a = address)
HasOne(stmt, address) == Len(WordsAt(stmt, address)) = 1
GetWord(stmt, address) == WordsAt(stmt, address)[1].c
GetWordDefault(stmt, address, def) ==
    IF HasOne(stmt, address) THEN GetWord(stmt, address) ELSE def
IncludesOneOf(stmt, addresses) == \E a \in addresses : HasOne(stmt, a)

\* Block.RemoveAddress and Block.Remove.
RemoveAddress(stmt, addresses) == SelectSeq(stmt, LAMBDA w : w.a \notin addresses)
Remove(stmt, word) == SelectSeq(stmt, LAMBDA w : w # word)

\* The table of the modal groups; a group the table does not have is empty.
groups(t) ==
    CASE t = "nonModalGroup" ->
           {G(4), G(10), G(28), G(30), G(53), G(92), W("G", 921), W("G", 922), W("G", 923)}
      [] t = "motionGroup" ->
           {G(0), G(1), G(2), G(3), G(33), W("G", 382), W("G", 383), W("G", 384),
            W("G", 385), G(73), G(76), G(80), G(81), G(82), G(83), G(84), G(85),
            G(86), G(87), G(88), G(89)}
      [] t = "planeSelectionGroup" ->
           {G(17), G(18), G(19), W("G", 171), W("G", 181), W("G", 191)}
      [] t = "distanceModeGroup" -> {G(90), G(91)}
      [] t = "arcDistanceModeGroup" -> {W("G", 901), W("G", 911)}
      [] t = "feedRateModeGroup" -> {G(93), G(94), G(95)}
      [] t = "unitsGroup" -> {G(20), G(21)}
      [] t = "cutterCompensationModeGroup" ->
           {G(40), G(41), W("G", 411), G(42), W("G", 421)}
      [] t = "toolLengthGroup" -> {G(43), W("G", 431), G(49)}
      [] t = "coordinateSystemGroup" ->
           {G(54), G(55), G(56), G(57), G(58), G(59), W("G", 591), W("G", 592),
            W("G", 593)}
      [] t = "stoppingGroup" -> {M(0), M(1), M(2), M(30), M(60)}
      [] t = "toolChangeGroup" -> {M(6), M(61)}
      [] t = "spindleGroup" -> {M(3), M(4), M(5)}
      [] t = "coolantGroup" -> {M(7), M(8), M(9)}
      [] OTHER -> {}

\* Block.GetModalGroup: the word of the group in the block (none: idx 0),
\* an error when the block has two.
GetModalGroup(stmt, t) ==
    LET in == SelectSeq(stmt, LAMBDA w : w \in groups(t))
    IN  IF Len(in) > 1
        THEN [err |-> "Multiple gcodes from same modal group", found |-> FALSE, word |-> G(0)]
        ELSE IF Len(in) = 0
        THEN [err |-> "", found |-> FALSE, word |-> G(0)]
        ELSE [err |-> "", found |-> TRUE, word |-> in[1]]

\* CoordinateSystem (coordinates.go); the slice coordinateSystems is a
\* sequence whose element s+1 is the system s.
RECURSIVE expandIfNecessary(_, _)
expandIfNecessary(cs, s) ==
    IF Len(cs.coordinateSystems) <= s
    THEN expandIfNecessary(
             [cs EXCEPT !.coordinateSystems = Append(cs.coordinateSystems, Zero)], s)
    ELSE cs

SelectCoordinateSystem(cs, s) ==
    [expandIfNecessary(cs, s) EXCEPT !.currentCoordinateSystem = s]

SetCoordinateSystem(cs, v, s) ==
    [expandIfNecessary(cs, s) EXCEPT !.coordinateSystems[s + 1] = v]

\* ApplyCoordinateSystem: the coordinates with the offsets in force added.
ApplyCoordinateSystem(cs, v) ==
    IF cs.override THEN v
    ELSE LET e == expandIfNecessary(cs, cs.currentCoordinateSystem)
             o == e.coordinateSystems[e.currentCoordinateSystem + 1]
         IN  Sum(v, IF e.offsetEnabled THEN Sum(o, e.offset) ELSE o)

\* The zero State, and the Machine after Init: the origin Position is on
\* the trace.
ZeroState ==
    [Feedrate |-> 0, SpindleSpeed |-> 0, MoveMode |-> MoveModeNone,
     FeedMode |-> FeedModeUnitsMin, SpindleEnabled |-> FALSE,
     SpindleClockwise |-> FALSE, FloodCoolant |-> FALSE, MistCoolant |-> FALSE,
     ToolIndex |-> 0, ToolLengthIndex |-> 0,
     CutterCompensation |-> CutCompModeNone, DwellTime |-> 0]

Position(state, v) == [State |-> state, X |-> v[1], Y |-> v[2], Z |-> v[3]]
Vector(p) == <<p.X, p.Y, p.Z>>

Init ==
    [State |-> ZeroState,
     Positions |-> <<Position(ZeroState, Zero)>>,
     Completed |-> FALSE, Imperial |-> FALSE, AbsoluteMove |-> TRUE,
     AbsoluteArc |-> FALSE, MovePlane |-> PlaneXY, NextTool |-> -1,
     CoordinateSystem |-> [coordinateSystems |-> <<>>, offset |-> Zero,
                           offsetEnabled |-> FALSE, currentCoordinateSystem |-> 0,
                           override |-> FALSE],
     StoredPos1 |-> Zero, StoredPos2 |-> Zero,
     IgnoreBlockDelete |-> FALSE, AllowRemainingWords |-> FALSE]

curPos(m) == m.Positions[Len(m.Positions)]

move(m, v) == [m EXCEPT !.Positions = Append(@, Position(m.State, v))]

\* vm.dwell: a Position at the current coordinates whose State has the
\* move mode Dwell and the dwell time.
dwell(m, seconds) ==
    [m EXCEPT !.Positions =
        Append(@, Position([m.State EXCEPT !.MoveMode = MoveModeDwell,
                                           !.DwellTime = seconds],
                           Vector(curPos(m))))]

\* vm.axesToMetric: inches to millimetres when the machine is imperial.
axesToMetric(m, v) ==
    IF m.Imperial THEN <<Inches(v[1]), Inches(v[2]), Inches(v[3])>> ELSE v

\* calcPos: the target X, Y, Z and the arc centre I, J, K of a block.
calcPos(m, stmt) ==
    LET pos == Vector(curPos(m))
        Axis(address, i) ==
            IF ~HasOne(stmt, address) THEN pos[i]
            ELSE IF m.Imperial THEN Inches(GetWord(stmt, address))
            ELSE GetWord(stmt, address)
        Centre(address) ==
            IF m.Imperial THEN Inches(GetWordDefault(stmt, address, 0))
            ELSE GetWordDefault(stmt, address, 0)
        xyz == <<Axis("X", 1), Axis("Y", 2), Axis("Z", 3)>>
        ijk == <<Centre("I"), Centre("J"), Centre("K")>>
    IN  [xyz |-> IF m.AbsoluteMove THEN xyz ELSE Sum(xyz, pos),
         ijk |-> IF m.AbsoluteArc THEN ijk ELSE Sum(ijk, pos)]

----------------------------------------------------------------------------
(* The steps of run.  A step takes and returns the record of the machine m, *)
(* the words left in the block stmt, the panic err ("" when none) and the   *)
(* record lm of the last line move.                                          *)

Fail(c, msg) == [c EXCEPT !.err = msg]

\* The shape the modal steps share: take the word of the group, propagate
\* the error of GetModalGroup, switch on the command (d is what the switch
\* makes of c), remove the word.
Modal(c, t, d) ==
    LET r == GetModalGroup(c.stmt, t)
    IN  IF r.err # "" THEN Fail(c, r.err)
        ELSE IF ~r.found THEN c
        ELSE IF d.err # "" THEN d
        ELSE [d EXCEPT !.stmt = Remove(d.stmt, r.word)]

unknownCommand(c, t) == Fail(c, "Unknown command from group")

lineNumber(c) ==
    IF HasOne(c.stmt, "N") THEN [c EXCEPT !.stmt = RemoveAddress(@, {"N"})] ELSE c

programName(c) ==
    IF HasOne(c.stmt, "O") THEN [c EXCEPT !.stmt = RemoveAddress(@, {"O"})] ELSE c

feedRateMode(c) ==
    LET Switch(d, cmd) ==
            LET mode == CASE cmd = 930 -> FeedModeInvTime
                          [] cmd = 940 -> FeedModeUnitsMin
                          [] OTHER -> FeedModeUnitsRev
            IN  IF cmd \notin {930, 940, 950} THEN unknownCommand(d, "feedRateModeGroup")
                ELSE [d EXCEPT !.m.State.FeedMode = mode,
                          !.m.State.Feedrate =
                              IF mode # d.m.State.FeedMode THEN 0 ELSE @]
    IN  Modal(c, "feedRateModeGroup", Switch(c, GetModalGroup(c.stmt, "feedRateModeGroup").word.c))

\* A feedRate that takes the units from the G20 or G21 of its own block.
feedRateUnitsOfBlock(c) ==
    LET u == GetModalGroup(c.stmt, "unitsGroup")
        imperial == IF u.found THEN u.word = G(20) ELSE c.m.Imperial
    IN  IF HasOne(c.stmt, "F")
        THEN [c EXCEPT !.m.State.Feedrate =
                           IF imperial THEN Inches(GetWord(c.stmt, "F"))
                           ELSE GetWord(c.stmt, "F"),
                       !.stmt = RemoveAddress(@, {"F"})]
        ELSE IF c.m.State.FeedMode = FeedModeInvTime
        THEN [c EXCEPT !.m.State.Feedrate = -10]
        ELSE c

feedRate(c) ==
    IF HasOne(c.stmt, "F")
    THEN [c EXCEPT !.m.State.Feedrate =
                       IF c.m.Imperial THEN Inches(GetWord(c.stmt, "F"))
                       ELSE GetWord(c.stmt, "F"),
                   !.stmt = RemoveAddress(@, {"F"})]
    ELSE IF c.m.State.FeedMode = FeedModeInvTime
    THEN [c EXCEPT !.m.State.Feedrate = -10]
    ELSE c

spindleSpeed(c) ==
    IF HasOne(c.stmt, "S")
    THEN [c EXCEPT !.m.State.SpindleSpeed = GetWord(c.stmt, "S"),
                   !.stmt = RemoveAddress(@, {"S"})]
    ELSE c

nextTool(c) ==
    IF HasOne(c.stmt, "T")
    THEN [c EXCEPT !.m.NextTool = int(GetWord(c.stmt, "T")),
                   !.stmt = RemoveAddress(@, {"T"})]
    ELSE c

\* A toolChange that takes whatever the next tool is.
toolChangeUnchecked(c) ==
    LET Switch(d, cmd) ==
            IF cmd = 60 THEN [d EXCEPT !.m.State.ToolIndex = d.m.NextTool]
            ELSE unknownCommand(d, "toolChangeGroup")
    IN  Modal(c, "toolChangeGroup", Switch(c, GetModalGroup(c.stmt, "toolChangeGroup").word.c))

toolChange(c) ==
    LET Switch(d, cmd) ==
            IF cmd = 60
            THEN IF d.m.NextTool = -1
                 THEN Fail(d, "Toolchange attempted without a defined tool")
                 ELSE [d EXCEPT !.m.State.ToolIndex = d.m.NextTool]
            ELSE unknownCommand(d, "toolChangeGroup")
    IN  Modal(c, "toolChangeGroup", Switch(c, GetModalGroup(c.stmt, "toolChangeGroup").word.c))

setSpindle(c) ==
    LET Switch(d, cmd) ==
            CASE cmd = 30 -> [d EXCEPT !.m.State.SpindleEnabled = TRUE,
                                       !.m.State.SpindleClockwise = TRUE]
              [] cmd = 40 -> [d EXCEPT !.m.State.SpindleEnabled = TRUE,
                                       !.m.State.SpindleClockwise = FALSE]
              [] cmd = 50 -> [d EXCEPT !.m.State.SpindleEnabled = FALSE]
              [] OTHER -> unknownCommand(d, "spindleGroup")
    IN  Modal(c, "spindleGroup", Switch(c, GetModalGroup(c.stmt, "spindleGroup").word.c))

setCoolant(c) ==
    LET Switch(d, cmd) ==
            CASE cmd = 70 -> [d EXCEPT !.m.State.MistCoolant = TRUE]
              [] cmd = 80 -> [d EXCEPT !.m.State.FloodCoolant = TRUE]
              [] cmd = 90 -> [d EXCEPT !.m.State.MistCoolant = FALSE,
                                       !.m.State.FloodCoolant = FALSE]
              [] OTHER -> unknownCommand(d, "coolantGroup")
    IN  Modal(c, "coolantGroup", Switch(c, GetModalGroup(c.stmt, "coolantGroup").word.c))

\* The table has no "polarModeGroup": GetModalGroup finds no word.
setPolarMode(c) ==
    LET Switch(d, cmd) ==
            CASE cmd = 150 -> d
              [] cmd = 160 -> Fail(d, "polar mode not supported")
              [] OTHER -> unknownCommand(d, "polarModeGroup")
    IN  Modal(c, "polarModeGroup", Switch(c, GetModalGroup(c.stmt, "polarModeGroup").word.c))

setPlane(c) ==
    LET Switch(d, cmd) ==
            CASE cmd = 170 -> [d EXCEPT !.m.MovePlane = PlaneXY]
              [] cmd = 180 -> [d EXCEPT !.m.MovePlane = PlaneXZ]
              [] cmd = 190 -> [d EXCEPT !.m.MovePlane = PlaneYZ]
              [] OTHER -> unknownCommand(d, "planeSelectionGroup")
    IN  Modal(c, "planeSelectionGroup", Switch(c, GetModalGroup(c.stmt, "planeSelectionGroup").word.c))

setUnits(c) ==
    LET Switch(d, cmd) ==
            IF cmd \in {200, 210} THEN [d EXCEPT !.m.Imperial = (cmd = 200)]
            ELSE unknownCommand(d, "unitsGroup")
    IN  Modal(c, "unitsGroup", Switch(c, GetModalGroup(c.stmt, "unitsGroup").word.c))

setCutterCompensation(c) ==
    LET Switch(d, cmd) ==
            CASE cmd = 400 -> [d EXCEPT !.m.State.CutterCompensation = CutCompModeNone]
              [] cmd = 410 -> [d EXCEPT !.m.State.CutterCompensation = CutCompModeOuter]
              [] cmd = 420 -> [d EXCEPT !.m.State.CutterCompensation = CutCompModeInner]
              [] OTHER -> unknownCommand(d, "cutterCompensationModeGroup")
    IN  Modal(c, "cutterCompensationModeGroup", Switch(c, GetModalGroup(c.stmt, "cutterCompensationModeGroup").word.c))

setToolLength(c) ==
    LET Switch(d, cmd) ==
            CASE cmd = 430 ->
                   [d EXCEPT !.m.State.ToolLengthIndex =
                                 IF HasOne(d.stmt, "H") THEN int(GetWord(d.stmt, "H"))
                                 ELSE d.m.State.ToolIndex,
                             !.stmt = RemoveAddress(@, {"H"})]
              [] cmd = 490 -> [d EXCEPT !.m.State.ToolLengthIndex = 0]
              [] OTHER -> unknownCommand(d, "toolLengthGroup")
    IN  Modal(c, "toolLengthGroup", Switch(c, GetModalGroup(c.stmt, "toolLengthGroup").word.c))

setCoordinateSystem(c) ==
    LET Number(cmd) == IF cmd <= 590 THEN (cmd - 530) \div 10 ELSE cmd - 584
        Switch(d, cmd) ==
            IF d.m.State.CutterCompensation # CutCompModeNone
            THEN Fail(d, "Coordinate system change attempted with cutter compensation enabled")
            ELSE IF cmd \notin {540, 550, 560, 570, 580, 590, 591, 592, 593}
            THEN unknownCommand(d, "coordinateSystemGroup")
            ELSE [d EXCEPT !.m.CoordinateSystem =
                               SelectCoordinateSystem(@, Number(cmd))]
    IN  Modal(c, "coordinateSystemGroup", Switch(c, GetModalGroup(c.stmt, "coordinateSystemGroup").word.c))

setDistanceMode(c) ==
    LET Switch(d, cmd) ==
            IF cmd \in {900, 910} THEN [d EXCEPT !.m.AbsoluteMove = (cmd = 900)]
            ELSE unknownCommand(d, "distanceModeGroup")
    IN  Modal(c, "distanceModeGroup", Switch(c, GetModalGroup(c.stmt, "distanceModeGroup").word.c))

setArcDistanceMode(c) ==
    LET Switch(d, cmd) ==
            IF cmd \in {901, 911} THEN [d EXCEPT !.m.AbsoluteArc = (cmd = 901)]
            ELSE unknownCommand(d, "arcDistanceModeGroup")
    IN  Modal(c, "arcDistanceModeGroup", Switch(c, GetModalGroup(c.stmt, "arcDistanceModeGroup").word.c))

\* G28 and G30: rapid through the optional intermediate point to the stored
\* position, then the move mode of before.
Home(d, stored) ==
    LET m1 == [d.m EXCEPT !.State.MoveMode = MoveModeRapid]
        via == IncludesOneOf(d.stmt, {"X", "Y", "Z"})
        m2 == IF via THEN move(m1, calcPos(m1, d.stmt).xyz) ELSE m1
        m3 == move(m2, stored)
    IN  [d EXCEPT !.m = [m3 EXCEPT !.State.MoveMode = d.m.State.MoveMode],
                  !.stmt = IF via THEN RemoveAddress(@, {"X", "Y", "Z"}) ELSE @]

nonModals(c) ==
    LET Axes(d) == axesToMetric(d.m, <<GetWordDefault(d.stmt, "X", 0),
                                       GetWordDefault(d.stmt, "Y", 0),
                                       GetWordDefault(d.stmt, "Z", 0)>>)
        G4(d) ==
            IF ~HasOne(d.stmt, "P")
            THEN Fail(d, "dwell: P word not specified or specified multiple times")
            ELSE IF GetWord(d.stmt, "P") < 0 THEN Fail(d, "dwell: P word negative")
            ELSE [d EXCEPT !.m = dwell(@, GetWord(d.stmt, "P")),
                           !.stmt = RemoveAddress(@, {"P"})]
        G10(d) ==
            IF ~HasOne(d.stmt, "L")
            THEN Fail(d, "G10 configuration: L word not specified or specified multiple times")
            ELSE IF GetWord(d.stmt, "L") # 20
            THEN [d EXCEPT !.stmt = RemoveAddress(@, {"L"})]
            ELSE IF ~HasOne(d.stmt, "P")
            THEN Fail(d, "coordinate system configuration: P word not specified or specified multiple times")
            ELSE IF int(GetWord(d.stmt, "P")) < 0
            THEN Fail(d, "runtime error: index out of range")
            ELSE [d EXCEPT !.m.CoordinateSystem =
                               SetCoordinateSystem(@, Axes(d), int(GetWord(d.stmt, "P"))),
                           !.stmt = RemoveAddress(@, {"X", "Y", "Z", "P", "L"})]
        G92(d) ==
            IF ~IncludesOneOf(d.stmt, {"X", "Y", "Z"})
            THEN Fail(d, "G92 configuration: No axis words specified")
            ELSE LET off == [d.m.CoordinateSystem EXCEPT !.offsetEnabled = FALSE]
                     at == ApplyCoordinateSystem(off, Axes(d))
                     cs == IF off.override THEN off
                           ELSE expandIfNecessary(off, off.currentCoordinateSystem)
                 IN  [d EXCEPT !.m.CoordinateSystem =
                                   [cs EXCEPT !.offset = Diff(Vector(curPos(d.m)), at),
                                              !.offsetEnabled = TRUE],
                               !.stmt = RemoveAddress(@, {"X", "Y", "Z"})]
        Switch(d, cmd) ==
            CASE cmd = 40 -> G4(d)
              [] cmd = 100 -> G10(d)
              [] cmd = 280 -> Home(d, d.m.StoredPos1)
              [] cmd = 281 -> [d EXCEPT !.m.StoredPos1 = Vector(curPos(d.m))]
              [] cmd = 300 -> Home(d, d.m.StoredPos2)
              [] cmd = 301 -> [d EXCEPT !.m.StoredPos2 = Vector(curPos(d.m))]
              [] cmd = 530 -> [d EXCEPT !.m.CoordinateSystem.override = TRUE]
              [] cmd = 920 -> G92(d)
              [] cmd = 921 -> [d EXCEPT !.m.CoordinateSystem.offset = Zero,
                                        !.m.CoordinateSystem.offsetEnabled = FALSE]
              [] cmd = 922 -> [d EXCEPT !.m.CoordinateSystem.offsetEnabled = FALSE]
              [] cmd = 923 -> [d EXCEPT !.m.CoordinateSystem.offsetEnabled = TRUE]
              [] OTHER -> unknownCommand(d, "nonModalGroup")
    IN  Modal(c, "nonModalGroup", Switch(c, GetModalGroup(c.stmt, "nonModalGroup").word.c))

setMoveMode(c) ==
    LET Switch(d, cmd) ==
            CASE cmd = 0 -> [d EXCEPT !.m.State.MoveMode = MoveModeRapid]
              [] cmd = 10 -> [d EXCEPT !.m.State.MoveMode = MoveModeLinear]
              [] cmd = 20 -> [d EXCEPT !.m.State.MoveMode = MoveModeCWArc]
              [] cmd = 30 -> [d EXCEPT !.m.State.MoveMode = MoveModeCCWArc]
              [] cmd = 800 -> [d EXCEPT !.m.State.MoveMode = MoveModeNone]
              [] OTHER -> unknownCommand(d, "motionGroup")
    IN  Modal(c, "motionGroup", Switch(c, GetModalGroup(c.stmt, "motionGroup").word.c))

\* An arc that leaves the move mode as it is.
arcKeepsMode(m) == m

\* arc, its first assignments: oldState is the mode, the mode is Linear.
arcLinear(m) == [m EXCEPT !.State.MoveMode = MoveModeLinear]

\* arc: the move mode is Linear while the points of the arc are appended
\* and the mode of before afterwards; the two panics leave it Linear.  Of
\* the points on the circle the model keeps the first (the start) and the
\* last (the end, whose distance from the centre the deviation test has
\* bounded); the end is then appended once more.
arc(m, xyz, ijk, P) ==
    LET start == Vector(curPos(m))
        lin == arcLinear(m)
        \* s1, s2, s3, e1, e2, e3, c1, c2 of the plane
        s == CASE m.MovePlane = PlaneXY -> start
               [] m.MovePlane = PlaneXZ -> <<start[3], start[1], start[2]>>
               [] m.MovePlane = PlaneYZ -> <<start[2], start[3], start[1]>>
        e == CASE m.MovePlane = PlaneXY -> xyz
               [] m.MovePlane = PlaneXZ -> <<xyz[3], xyz[1], xyz[2]>>
               [] m.MovePlane = PlaneYZ -> <<xyz[2], xyz[3], xyz[1]>>
        c == CASE m.MovePlane = PlaneXY -> <<ijk[1], ijk[2]>>
               [] m.MovePlane = PlaneXZ -> <<ijk[3], ijk[1]>>
               [] m.MovePlane = PlaneYZ -> <<ijk[2], ijk[3]>>
        add(mm, v) ==
            CASE m.MovePlane = PlaneXY -> move(mm, v)
              [] m.MovePlane = PlaneXZ -> move(mm, <<v[2], v[3], v[1]>>)
              [] m.MovePlane = PlaneYZ -> move(mm, <<v[3], v[1], v[2]>>)
        \* the squares of radius1 and radius2
        sq1 == (c[1] - s[1]) * (c[1] - s[1]) + (c[2] - s[2]) * (c[2] - s[2])
        sq2 == (c[1] - e[1]) * (c[1] - e[1]) + (c[2] - e[2]) * (c[2] - e[2])
        \* |radius2 - radius1| / radius1 * 100 > 0.6 on the squares:
        \* sq2 > 1.006^2 * sq1 or sq2 < 0.994^2 * sq1, in 32-bit steps
        Part(n) == (sq1 \div 250000) * n + ((sq1 % 250000) * n) \div 250000
        deviates == \/ sq2 - sq1 > Part(3009)
                    \/ sq1 - sq2 > Part(2991)
    IN  IF sq1 = 0 \/ sq2 = 0
        THEN [m |-> lin, err |-> "Invalid arc statement"]
        ELSE IF deviates /\ sq1 > 1
        THEN [m |-> lin, err |-> "Radius deviation"]
        ELSE [m |-> [add(add(add(lin, s), e), e)
                        EXCEPT !.State.MoveMode = m.State.MoveMode],
              err |-> ""]

\* A performMove that lets every move pass under the override.
overrideAlwaysLegal(m) == ""

\* performMove, the checks under OverrideActive: the panic, "" when none.
overrideIllegal(m) ==
    IF ~m.CoordinateSystem.override THEN ""
    ELSE IF m.State.CutterCompensation # CutCompModeNone
    THEN "Coordinate override attempted with cutter compensation enabled"
    ELSE IF m.State.MoveMode \in {MoveModeCWArc, MoveModeCCWArc}
    THEN "Coordinate override attempted for arc"
    ELSE ""

performMove(c) ==
    LET s == c.m.State
        isArc == s.MoveMode \in {MoveModeCWArc, MoveModeCCWArc}
        pos == calcPos(c.m, c.stmt)
    IN  IF ~IncludesOneOf(c.stmt, {"X", "Y", "Z"}) THEN c
        ELSE IF /\ s.FeedMode = FeedModeInvTime /\ s.Feedrate = -10
                /\ s.MoveMode # MoveModeRapid
        THEN Fail(c, "Non-rapid inverse time feed mode move attempted without a set feedrate")
        ELSE IF overrideIllegal(c.m) # ""
        THEN Fail(c, overrideIllegal(c.m))
        ELSE IF isArc
        THEN LET r == arc(c.m, pos.xyz, pos.ijk, GetWordDefault(c.stmt, "P", 10))
             IN  IF r.err # "" THEN [c EXCEPT !.m = r.m, !.err = r.err]
                 ELSE [c EXCEPT !.m = r.m,
                                !.stmt = RemoveAddress(@, {"X", "Y", "Z", "I", "J", "K", "P"})]
        ELSE IF s.MoveMode \in {MoveModeLinear, MoveModeRapid}
        THEN [c EXCEPT !.m = move(@, pos.xyz),
                       !.stmt = RemoveAddress(@, {"X", "Y", "Z"}),
                       !.lm = [set |-> TRUE, at |-> Len(c.m.Positions) + 1,
                               raw |-> pos.xyz,
                               axes |-> {i \in 1..3 : HasOne(c.stmt, <<"X", "Y", "Z">>[i])},
                               offsets |-> ApplyCoordinateSystem(c.m.CoordinateSystem, pos.xyz),
                               override |-> c.m.CoordinateSystem.override]]
        ELSE Fail(c, "Move attempted without an active move mode")

setStop(c) ==
    LET Switch(d, cmd) ==
            IF cmd \in {20, 300} THEN [d EXCEPT !.m.Completed = TRUE]
            ELSE unknownCommand(d, "stoppingGroup")
    IN  Modal(c, "stoppingGroup", Switch(c, GetModalGroup(c.stmt, "stoppingGroup").word.c))

postCheck(c) ==
    IF c.stmt # <<>> /\ ~c.m.AllowRemainingWords
    THEN Fail(c, "Unsupported commands left in block")
    ELSE c

temporaryReset(c) == [c EXCEPT !.m.CoordinateSystem.override = FALSE]

\* run: the steps in their order; a panic ends the block with what the
\* steps before it have done.
Then(c, step(_)) == CHOOSE r \in {IF d.err # "" THEN d ELSE step(d) : d \in {c}} : TRUE

\* A machine that never takes a stop for issued.
neverStopped(m) == FALSE

\* run, its first test: a stop had previously been issued.
stopped(m) == m.Completed

run(m, stmt, lm) ==
    LET c0 == [m |-> m, stmt |-> stmt, err |-> "", lm |-> lm]
        c1 == Then(Then(Then(lineNumber(c0), programName), feedRateMode), feedRate)
        c2 == Then(Then(Then(Then(c1, spindleSpeed), nextTool), toolChange), setSpindle)
        c3 == Then(Then(Then(Then(c2, setCoolant), setPolarMode), setPlane), setUnits)
        c4 == Then(Then(Then(c3, setCutterCompensation), setToolLength), setCoordinateSystem)
        c5 == Then(Then(Then(Then(c4, setDistanceMode), setArcDistanceMode), nonModals), setMoveMode)
        c6 == Then(Then(Then(Then(c5, performMove), setStop), postCheck), temporaryReset)
    IN  IF stopped(m) THEN c0 ELSE c6

\* A finalize that appends nothing.
finalizeNothing(m) == m

\* finalize: a last Position when the state has changed since the last one.
finalize(m) ==
    IF m.State # curPos(m).State
    THEN move([m EXCEPT !.State.MoveMode = MoveModeNone], Vector(curPos(m)))
    ELSE m

----------------------------------------------------------------------------
(* The passes of package optimize over the trace *)

\* vec == lastvec for the unit vectors of two displacements: the same
\* direction.  The zero vector is the lastvec of "none".
SameDirection(d, l) ==
    /\ l # Zero
    /\ d[2] * l[3] - d[3] * l[2] = 0
    /\ d[3] * l[1] - d[1] * l[3] = 0
    /\ d[1] * l[2] - d[2] * l[1] = 0
    /\ d[1] * l[1] + d[2] * l[2] + d[3] * l[3] > 0

\* OptBogusMoves: the loop from Position i on, with the state, lastvec and
\* npos of the loop; the result is npos.
RECURSIVE BogusMovesFrom(_, _, _, _, _)
BogusMovesFrom(ps, i, state, lastvec, npos) ==
    IF i > Len(ps) THEN npos
    ELSE LET p == ps[i]
             d == Diff(Vector(p), state)
         IN  IF p.State.MoveMode \notin {MoveModeRapid, MoveModeLinear}
             THEN BogusMovesFrom(ps, i + 1, Vector(p), Zero, npos)
             ELSE IF d = Zero
             THEN BogusMovesFrom(ps, i + 1, Vector(p), lastvec, npos)
             ELSE IF SameDirection(d, lastvec)
             THEN BogusMovesFrom(ps, i + 1, Vector(p), lastvec,
                                 [npos EXCEPT ![Len(npos)] = p])
             ELSE BogusMovesFrom(ps, i + 1, Vector(p), d, Append(npos, p))

OptBogusMoves(m) == [m EXCEPT !.Positions = BogusMovesFrom(@, 1, Zero, Zero, <<>>)]

\* OptLiftSpeed: a Position straight above the one before it is a rapid.
OptLiftSpeed(m) ==
    LET ps == m.Positions
        Last(i) == IF i = 1 THEN Zero ELSE Vector(ps[i - 1])
        Lift(i) == /\ ps[i].X = Last(i)[1] /\ ps[i].Y = Last(i)[2]
                   /\ ps[i].Z > Last(i)[3]
    IN  [m EXCEPT !.Positions =
            [i \in 1..Len(ps) |->
                IF Lift(i) THEN [ps[i] EXCEPT !.State.MoveMode = MoveModeRapid]
                ELSE ps[i]]]

----------------------------------------------------------------------------
(* Process over a program, then the passes *)

\* The programs are made of at most MaxBlocks of these blocks.
MaxBlocks == 3

Block(nodes) == [Nodes |-> nodes, BlockDelete |-> FALSE]

VMBlocks ==
    { Block(<<G(20), G(1), W("X", 10), W("F", 600)>>),
      Block(<<G(1), W("X", 10), W("F", 600)>>),
      Block(<<G(20)>>),
      Block(<<G(21), W("F", 1000)>>),
      Block(<<G(0), W("Z", 50)>>),
      Block(<<G(91), G(1), W("Y", 20)>>),
      Block(<<G(92), W("X", 0)>>),
      Block(<<G(10), W("L", 20), W("P", 10), W("X", 100)>>),
      Block(<<G(54)>>),
      Block(<<G(53), G(0), W("X", 30)>>),
      Block(<<G(2), W("X", 100), W("I", 50)>>),
      Block(<<G(18), G(3), W("X", 40), W("I", 20)>>),
      Block(<<M(3), W("S", 10000)>>),
      Block(<<G(4), W("P", 10)>> ) }

\* Process, one block of the loop: a block delete that is ignored, or run;
\* the error of run ends Process.
ProcessBlock(b) ==
    /\ vmpc = "process"
    /\ Len(doc) < MaxBlocks
    /\ doc' = Append(doc, b)
    /\ IF b.BlockDelete /\ machine.IgnoreBlockDelete
       THEN /\ lastRun' = [ran |-> FALSE]
            /\ UNCHANGED <<machine, vmpc, lastMove>>
       ELSE \E r \in {run(machine, b.Nodes, lastMove)} :
                /\ machine' = r.m
                /\ lastRun' = [ran |-> ~machine.Completed, before |-> machine,
                               err |-> r.err]
                /\ lastMove' = r.lm
                /\ vmpc' = IF r.err # "" THEN "error" ELSE "process"
    /\ UNCHANGED <<genVars, sendVars, driverVars>>

\* Process, after the last block: finalize and return nil.
ProcessReturns ==
    /\ vmpc = "process"
    /\ machine' = finalize(machine)
    /\ vmpc' = "done"
    /\ lastRun' = [ran |-> FALSE, before |-> machine, err |-> ""]
    /\ UNCHANGED <<doc, lastMove, genVars, sendVars, driverVars>>

\* main, after Process: optimize.OptBogusMoves(&machine).
RunOptBogusMoves ==
    /\ vmpc \in {"done", "passed"}
    /\ machine' = OptBogusMoves(machine)
    /\ vmpc' = "passed"
    /\ UNCHANGED <<doc, lastMove, lastRun, genVars, sendVars, driverVars>>

\* main, after Process: optimize.OptLiftSpeed(&machine).
RunOptLiftSpeed ==
    /\ vmpc \in {"done", "passed"}
    /\ machine' = OptLiftSpeed(machine)
    /\ vmpc' = "passed"
    /\ UNCHANGED <<doc, lastMove, lastRun, genVars, sendVars, driverVars>>

InitVM ==
    /\ InitSendWith({<<>>}) /\ pc = "idle"
    /\ machine = Init
    /\ vmpc = "process" /\ doc = <<>>
    /\ lastMove = [set |-> FALSE]
    /\ lastRun = [ran |-> FALSE]
    /\ GenIdle

NextVM ==
    \/ \E b \in VMBlocks : ProcessBlock(b)
    \/ ProcessReturns
    \/ RunOptBogusMoves
    \/ RunOptLiftSpeed

SpecVM == InitVM /\ [][NextVM]_vars

----------------------------------------------------------------------------
(* Properties of Process and of the passes *)

\* The trace is the one Process has made: no pass has run over it.
TraceOfProcess == vmpc \in {"process", "done", "error"}

\* C7: the coordinates a line move puts on the trace are, on the axes the
\* block names, the raw coordinates of calcPos plus the active work offset
\* plus the G92 offset when it is enabled, and the raw coordinates alone
\* under G53.
C7_MoveAppliesOffsets ==
    (TraceOfProcess /\ lastMove.set) =>
        \A i \in lastMove.axes :
            Vector(machine.Positions[lastMove.at])[i] = lastMove.offsets[i]

UnitsBlock == Block(<<G(20), G(1), W("X", 10), W("F", 600)>>)

\* C8 as the claim has it: the block G20 G1 X1 F60 alone yields x = 25.4
\* and feedrate = 1524.0.
C8_FeedConvertedInBlock ==
    (vmpc = "done" /\ doc = <<UnitsBlock>>) =>
        /\ machine.Positions[2].X = 254
        /\ machine.Positions[2].State.Feedrate = 15240

\* C8, amended: the block G20 G1 X1 F60 alone yields x = 25.4 and
\* feedrate = 60.0, the F word being read before the G20 of its block; the
\* F word is converted from inches when G20 came in an earlier block, and
\* G20 then G1 X1 F60 yields x = 25.4 and feedrate = 1524.0.
C8_FeedConvertedAfterUnits ==
    /\ (vmpc = "done" /\ doc = <<UnitsBlock>>) =>
           /\ machine.Positions[2].X = 254
           /\ machine.Positions[2].State.Feedrate = 600
    /\ (vmpc = "done" /\ doc = <<Block(<<G(20)>>), Block(<<G(1), W("X", 10), W("F", 600)>>)>>) =>
           /\ machine.Positions[2].X = 254
           /\ machine.Positions[2].State.Feedrate = 15240

C8_UnitsBlockProcessed ==
    /\ vmpc = "done" /\ doc = <<UnitsBlock>>
    /\ Len(machine.Positions) = 2
    /\ machine.Imperial

\* C9: after Init the trace is never empty and its first entry is the
\* origin, whatever Process and the passes have done.
C9_OriginStaysFirst ==
    vmpc # "idle" =>
        /\ Len(machine.Positions) >= 1
        /\ machine.Positions[1] = Position(ZeroState, Zero)

\* C10: no Position of a trace Process has made has the move mode CWArc or
\* CCWArc.
C10_NoArcInTrace ==
    TraceOfProcess =>
        \A i \in 1..Len(machine.Positions) :
            machine.Positions[i].State.MoveMode \notin {MoveModeCWArc, MoveModeCCWArc}

\* An arc has been tessellated: after G2 X10 I5 the trace has the origin,
\* the points of the arc as linear moves, and the Position of finalize.
C10_ArcTessellated ==
    /\ vmpc = "done"
    /\ doc = <<Block(<<G(2), W("X", 100), W("I", 50)>>)>>
    /\ Len(machine.Positions) = 5
    /\ machine.Positions[4].State.MoveMode = MoveModeLinear
    /\ machine.Positions[4].X = 100
    /\ machine.State.MoveMode = MoveModeNone

----------------------------------------------------------------------------
(* Process over the programs that the interpreter is to reject or to take; *)
(* the embedding program has set AllowRemainingWords or left it.           *)

RejectBlocks ==
    { Block(<<G(41)>>),
      Block(<<G(53), G(0), W("X", 30)>>),
      Block(<<G(53), W("X", 30)>>),
      Block(<<G(53)>>),
      Block(<<G(2), W("X", 100), W("I", 50)>>),
      Block(<<G(1), W("X", 10), W("F", 600)>>),
      Block(<<W("F", -10)>>),
      Block(<<W("T", -10)>>),
      Block(<<W("T", 10)>>),
      Block(<<M(6)>>),
      Block(<<W("T", 20), M(6)>>),
      Block(<<G(1), W("X", 10), W("A", 10)>>),
      Block(<<G(16)>>),
      Block(<<G(15)>>),
      Block(<<W("G", 281)>>),
      Block(<<W("G", 301)>>),
      Block(<<G(28)>>),
      Block(<<G(30)>>),
      Block(<<M(3), W("S", 10000)>>),
      Block(<<M(2)>>) }

InitReject ==
    /\ InitSendWith({<<>>}) /\ pc = "idle"
    /\ machine \in {[Init EXCEPT !.AllowRemainingWords = a] : a \in BOOLEAN}
    /\ vmpc = "process" /\ doc = <<>>
    /\ lastMove = [set |-> FALSE]
    /\ lastRun = [ran |-> FALSE]
    /\ GenIdle

NextReject ==
    \/ \E b \in RejectBlocks : ProcessBlock(b)
    \/ ProcessReturns

SpecReject == InitReject /\ [][NextReject]_vars

\* The block run has just run and the words of it.
LastBlock == doc[Len(doc)].Nodes
Words(stmt) == {stmt[i] : i \in 1..Len(stmt)}

C12_NegativeRejected ==
    (/\ lastRun.ran
     /\ \E w \in Words(LastBlock) : w.a \in {"F", "T"} /\ w.c < 0)
    => lastRun.err # ""

\* C13: a block with an A, B, C, U, V or W word is a hard error of Process
\* under every setting of the options of the machine.
C13_AxisRejected ==
    (/\ lastRun.ran
     /\ \E w \in Words(LastBlock) : w.a \in {"A", "B", "C", "U", "V", "W"})
    => lastRun.err # ""

\* C14: an M6 before which no T word has been processed is a hard error,
\* and an M6 that is accepted never leaves the tool index at -1.
C14_ToolChangeNeedsTool ==
    (lastRun.ran /\ M(6) \in Words(LastBlock)) =>
        /\ (\A k \in 1..Len(doc) : ~HasOne(doc[k].Nodes, "T")) => lastRun.err # ""
        /\ lastRun.err = "" => machine.State.ToolIndex # -1

C14_ToolChangeWithoutTool ==
    /\ lastRun.ran /\ vmpc = "error"
    /\ doc = <<Block(<<M(6)>>)>>
    /\ lastRun.err = "Toolchange attempted without a defined tool"

\* C15: a block with G16 makes Process fail, and the block G15 is consumed
\* without error.
C15_PolarWords ==
    lastRun.ran =>
        /\ G(16) \in Words(LastBlock) => lastRun.err # ""
        /\ LastBlock = <<G(15)>> => lastRun.err = ""

\* C16: G28.1 stores the current position as stored position #1 and G30.1
\* as #2, where a later G28 or G30 moves to.
C16_StoresPosition ==
    lastRun.ran =>
        /\ LastBlock = <<W("G", 281)>> =>
               /\ lastRun.err = ""
               /\ machine.StoredPos1 = Vector(curPos(lastRun.before))
        /\ LastBlock = <<W("G", 301)>> =>
               /\ lastRun.err = ""
               /\ machine.StoredPos2 = Vector(curPos(lastRun.before))

\* C17: when Process has succeeded, a Position of move mode None with the
\* final state has been appended at the last coordinates if the state
\* differed from that of the last Position, and nothing otherwise: the last
\* Position carries the final state of the machine.
C17_TerminatorCarriesState ==
    vmpc = "done" =>
        LET pre == lastRun.before
            end == [pre.State EXCEPT !.MoveMode = MoveModeNone]
        IN  /\ curPos(machine).State = machine.State
            /\ IF pre.State # curPos(pre).State
               THEN /\ machine.Positions =
                           Append(pre.Positions, Position(end, Vector(curPos(pre))))
                    /\ machine.State = end
               ELSE machine.Positions = pre.Positions /\ machine.State = pre.State

C17_TerminatorAppended ==
    /\ vmpc = "done"
    /\ doc = <<Block(<<G(1), W("X", 10), W("F", 600)>>), Block(<<M(3), W("S", 10000)>>)>>
    /\ Len(machine.Positions) = 3
    /\ machine.Positions[3].State.MoveMode = MoveModeNone
    /\ machine.Positions[3].State.SpindleEnabled
    /\ machine.Positions[3].X = 10

\* ======================================================================
\* The code generators (package export) and the dry run of the streamer.
\* A generator holds its current Position, the ForceModeWrite latch, the
\* tool it last announced and the lines it has written.  A line is the
\* sequence of its words and the method that wrote it.  An operation that
\* panics leaves its message in err; HandlePosition recovers it.
\* ======================================================================

\* vm.NewState: the State no Position of a trace has.
NewState ==
    [ZeroState EXCEPT !.FeedMode = -1, !.ToolIndex = -1,
                      !.ToolLengthIndex = -1, !.CutterCompensation = -1]

\* StringCodeGenerator.Init puts a header block; GrblGenerator uses
\* BaseGenerator.Init and writes nothing.
GenInit(dialect) ==
    [dialect |-> dialect, Position |-> Position(NewState, Zero),
     ForceModeWrite |-> FALSE, Tool |-> 0, err |-> "",
     Lines |-> IF dialect = "string"
               THEN <<[by |-> "Init", words |-> <<W("(Exported by gocnc)", 0)>>],
                      [by |-> "Init", words |-> <<G(21), G(90)>>]>>
               ELSE <<>>]

put(g, by, words) == [g EXCEPT !.Lines = Append(@, [by |-> by, words |-> words])]

panic(g, msg) == [g EXCEPT !.err = msg]

\* StringCodeGenerator.ToolChange; the GRBL generator has the dummy of
\* BaseGenerator (its own method is named Toolchange and is never called).
ToolChange(g, t) ==
    IF g.dialect = "grbl" THEN g
    ELSE LET n == Len(g.Lines)
             h == IF g.Tool = t
                  THEN IF g.Lines[n].words = <<W("T", 10 * t)>>
                       THEN [g EXCEPT !.Lines[n] =
                                [by |-> "ToolChange", words |-> <<M(6), W("T", 10 * t)>>]]
                       ELSE put(g, "ToolChange", <<M(6)>>)
                  ELSE [put(g, "ToolChange", <<M(6), W("T", 10 * t)>>) EXCEPT !.Tool = t]
         IN  [h EXCEPT !.ForceModeWrite = TRUE]

\* StringCodeGenerator.ToolLengthChange; the dummy for GRBL.
ToolLengthChange(g, h) ==
    IF g.dialect = "grbl" THEN g
    ELSE IF h = 0 THEN put(g, "ToolLengthChange", <<G(49)>>)
    ELSE put(g, "ToolLengthChange", <<G(43), W("H", 10 * h)>>)

\* Spindle, the same in both dialects: the line is written even when it
\* is empty.
Spindle(g, enabled, clockwise, speed) ==
    LET state == g.Position.State
        turn == state.SpindleEnabled # enabled \/ state.SpindleClockwise # clockwise
        x1 == IF ~turn THEN <<>>
              ELSE IF enabled /\ clockwise THEN <<M(3)>>
              ELSE IF enabled /\ ~clockwise THEN <<M(4)>>
              ELSE <<M(5)>>
        x2 == IF enabled /\ state.SpindleSpeed # speed THEN <<W("S", speed)>> ELSE <<>>
        h == IF turn THEN [g EXCEPT !.ForceModeWrite = TRUE] ELSE g
    IN  put(h, "Spindle", x1 \o x2)

CoolantLines(g, floodCoolant, mistCoolant) ==
    IF ~floodCoolant /\ ~mistCoolant THEN put(g, "Coolant", <<M(9)>>)
    ELSE LET h == IF floodCoolant THEN put(g, "Coolant", <<M(8)>>) ELSE g
         IN  IF mistCoolant THEN put(h, "Coolant", <<M(7)>>) ELSE h

\* Coolant as the later GrblGenerator has it: the latch is not set.
CoolantNoForce(g, floodCoolant, mistCoolant) == CoolantLines(g, floodCoolant, mistCoolant)

\* Coolant, the same in both dialects.
Coolant(g, floodCoolant, mistCoolant) ==
    [CoolantLines(g, floodCoolant, mistCoolant) EXCEPT !.ForceModeWrite = TRUE]

FeedMode(g, feedMode) ==
    CASE feedMode = FeedModeInvTime -> put(g, "FeedMode", <<G(93)>>)
      [] feedMode = FeedModeUnitsMin -> put(g, "FeedMode", <<G(94)>>)
      [] feedMode = FeedModeUnitsRev -> put(g, "FeedMode", <<G(95)>>)
      [] OTHER -> panic(g, "Unknown feed mode")

Feedrate(g, feedrate) == put(g, "Feedrate", <<W("F", feedrate)>>)

\* GrblGenerator.CutterCompensation rejects every mode but None and
\* writes nothing; StringCodeGenerator writes G40, G41 or G42.
CutterCompensation(g, cutComp) ==
    IF g.dialect = "grbl"
    THEN IF cutComp # CutCompModeNone
         THEN panic(g, "Cutter compensation not supported by Grbl")
         ELSE g
    ELSE CASE cutComp = CutCompModeNone -> put(g, "CutterCompensation", <<G(40)>>)
           [] cutComp = CutCompModeOuter -> put(g, "CutterCompensation", <<G(41)>>)
           [] cutComp = CutCompModeInner -> put(g, "CutterCompensation", <<G(42)>>)
           [] OTHER -> panic(g, "Unknown cutter compensation mode")

\* StringCodeGenerator.Dwell; the dummy for GRBL.
Dwell(g, seconds) ==
    IF g.dialect = "grbl" THEN g ELSE put(g, "Dwell", <<G(4), W("P", seconds)>>)

\* Move, the same in both dialects.  With the mode None the method
\* returns before it clears the latch.
Move(g, x, y, z, moveMode) ==
    LET pos == g.Position
        mode == pos.State.MoveMode # moveMode \/ g.ForceModeWrite
        coords == (IF pos.X # x THEN <<W("X", x)>> ELSE <<>>)
                  \o (IF pos.Y # y THEN <<W("Y", y)>> ELSE <<>>)
                  \o (IF pos.Z # z THEN <<W("Z", z)>> ELSE <<>>)
        h == [g EXCEPT !.ForceModeWrite = FALSE]
    IN  IF ~mode THEN put(h, "Move", coords)
        ELSE CASE moveMode = MoveModeNone -> g
               [] moveMode = MoveModeRapid -> put(h, "Move", <<G(0)>> \o coords)
               [] moveMode = MoveModeLinear -> put(h, "Move", <<G(1)>> \o coords)
               [] moveMode \in {MoveModeCWArc, MoveModeCCWArc} -> panic(g, "Cannot export arcs")
               [] OTHER -> panic(g, "Unknown move mode")

\* A dispatcher that moves whether or not anything differs.
movesAlways(cp, pos) == TRUE

\* The condition under which HandlePosition calls Move.
moves(cp, pos) ==
    cp.X # pos.X \/ cp.Y # pos.Y \/ cp.Z # pos.Z \/ cp.State.MoveMode # pos.State.MoveMode

\* export.HandlePosition for one generator.  cp and cs are read once,
\* before the first operation; a panic is recovered into err and the
\* current position is then not set.
HandlePosition(g, pos) ==
    LET cp == g.Position
        cs == cp.State
        ns == pos.State
        tool(h) == IF ns.ToolIndex # cs.ToolIndex THEN ToolChange(h, ns.ToolIndex) ELSE h
        toolLength(h) == IF ns.ToolLengthIndex # cs.ToolLengthIndex
                         THEN ToolLengthChange(h, ns.ToolLengthIndex) ELSE h
        spindle(h) == IF \/ ns.SpindleEnabled # cs.SpindleEnabled
                         \/ ns.SpindleClockwise # cs.SpindleClockwise
                         \/ ns.SpindleSpeed # cs.SpindleSpeed
                      THEN Spindle(h, ns.SpindleEnabled, ns.SpindleClockwise, ns.SpindleSpeed)
                      ELSE h
        coolant(h) == IF ns.FloodCoolant # cs.FloodCoolant \/ ns.MistCoolant # cs.MistCoolant
                      THEN Coolant(h, ns.FloodCoolant, ns.MistCoolant) ELSE h
        feedMode(h) == IF ns.FeedMode # cs.FeedMode THEN FeedMode(h, ns.FeedMode) ELSE h
        feedrate(h) == IF ns.Feedrate # cs.Feedrate THEN Feedrate(h, ns.Feedrate) ELSE h
        cutComp(h) == IF ns.CutterCompensation # cs.CutterCompensation
                      THEN CutterCompensation(h, ns.CutterCompensation) ELSE h
        motion(h) == IF ns.MoveMode = MoveModeDwell THEN Dwell(h, ns.DwellTime)
                     ELSE IF moves(cp, pos) THEN Move(h, pos.X, pos.Y, pos.Z, ns.MoveMode)
                     ELSE h
        SetPosition(h) == [h EXCEPT !.Position = pos]
        g0 == [g EXCEPT !.err = ""]
        g1 == Then(Then(Then(Then(tool(g0), toolLength), spindle), coolant), feedMode)
    IN  Then(Then(Then(Then(g1, feedrate), cutComp), motion), SetPosition)

\* export.HandleAllPositions for one generator: the first error ends it.
RECURSIVE HandleAllPositions(_, _)
HandleAllPositions(g, positions) ==
    IF positions = <<>> THEN [g EXCEPT !.err = ""]
    ELSE LET h == HandlePosition(g, Head(positions))
         IN  IF h.err # "" THEN h ELSE HandleAllPositions(h, Tail(positions))

\* GrblStreamer.Check: a GRBL generator with a sink for a writer is run
\* over the trace.  What HandleAllPositions returns is dropped (dry keeps
\* it for the record), no panic reaches the recover of Check, and nil is
\* returned.
Check(positions) ==
    [err |-> "", dry |-> HandleAllPositions(GenInit("grbl"), positions).err]

\* ---- the specification of the generators ----

MaxCalls == 3
MaxTrace == 2

Linear60 == [ZeroState EXCEPT !.MoveMode = MoveModeLinear, !.Feedrate = 600]

GenStates ==
    [none |-> ZeroState,
     rapid |-> [ZeroState EXCEPT !.MoveMode = MoveModeRapid],
     linear |-> Linear60,
     spindle |-> [Linear60 EXCEPT !.SpindleEnabled = TRUE, !.SpindleClockwise = TRUE,
                                  !.SpindleSpeed = 10000],
     coolant |-> [Linear60 EXCEPT !.FloodCoolant = TRUE],
     tool |-> [Linear60 EXCEPT !.ToolIndex = 1],
     comp |-> [Linear60 EXCEPT !.CutterCompensation = CutCompModeOuter],
     arc |-> [Linear60 EXCEPT !.MoveMode = MoveModeCWArc],
     dwell |-> [Linear60 EXCEPT !.MoveMode = MoveModeDwell, !.DwellTime = 10]]

\* The Positions handed to the generators: each State at the origin or
\* at X1, as Process leaves them in a trace or as a caller builds them.
GenPositions ==
    {Position(GenStates[k], Zero) : k \in {"none", "rapid", "linear", "spindle"}}
    \cup {Position(GenStates[k], <<10, 0, 0>>) : k \in DOMAIN GenStates \ {"none"}}

InitGen ==
    /\ InitSendWith({<<>>}) /\ pc = "idle"
    /\ machine = [Positions |-> <<>>] /\ vmpc = "idle" /\ doc = <<>>
    /\ lastMove = [set |-> FALSE] /\ lastRun = [ran |-> FALSE]
    /\ gen \in {GenInit(d) : d \in {"grbl", "string"}}
    /\ genLog = [n |-> 0]
    /\ checked = [done |-> FALSE]
    /\ TextIdle

\* One call of HandlePosition by the exporter or the streamer.
CallHandlePosition(pos) ==
    /\ gen.dialect # "none" /\ ~checked.done
    /\ genLog.n < MaxCalls
    /\ \E h \in {HandlePosition(gen, pos)} :
        /\ gen' = h
        /\ genLog' = [n |-> genLog.n + 1,
                      prev |-> IF genLog.n = 0 THEN [target |-> <<>>, err |-> ""]
                               ELSE genLog.last,
                      last |-> [target |-> pos,
                                emitted |-> SubSeq(h.Lines, Len(gen.Lines) + 1, Len(h.Lines)),
                                rewrote |-> SubSeq(h.Lines, 1, Len(gen.Lines)) # gen.Lines,
                                err |-> h.err]]
    /\ UNCHANGED <<checked, text, conn, machine, vmpc, doc, lastMove, lastRun, sendVars, driverVars>>

\* The dry run of a trace, before anything is streamed.
CallCheck(positions) ==
    /\ gen.dialect = "grbl" /\ genLog.n = 0 /\ ~checked.done
    /\ checked' = [done |-> TRUE, trace |-> positions, ret |-> Check(positions)]
    /\ UNCHANGED <<gen, genLog, text, conn, machine, vmpc, doc, lastMove, lastRun, sendVars, driverVars>>

NextGen ==
    \/ \E pos \in GenPositions : CallHandlePosition(pos)
    \/ \E positions \in SeqsUpTo(GenPositions, MaxTrace) : CallCheck(positions)

SpecGen == InitGen /\ [][NextGen]_vars

\* ---- claims about the generators ----

\* A trace GRBL cannot run: some Position has a cutter compensation other
\* than None or an arc move mode.
Incompatible(positions) ==
    \E i \in DOMAIN positions :
        \/ positions[i].State.CutterCompensation # CutCompModeNone
        \/ positions[i].State.MoveMode \in {MoveModeCWArc, MoveModeCCWArc}

\* C18: Check returns an error whenever some Position of the trace has a
\* cutter compensation other than None or an arc move mode.
C18_CheckRejects ==
    (checked.done /\ Incompatible(checked.trace)) => checked.ret.err # ""

MCodeLine(l) == \E i \in DOMAIN l.words : l.words[i].a = "M"
MoveLine(l) == l.by = "Move"

\* Line j is the first line Move wrote after the M-code line i.
FirstMoveAfter(i, j) ==
    /\ i < j
    /\ MCodeLine(gen.Lines[i])
    /\ MoveLine(gen.Lines[j])
    /\ \A k \in (i + 1)..(j - 1) : ~MoveLine(gen.Lines[k])

\* C19: in the lines of the GRBL generator, the first move line after an
\* M-code line starts with the move-mode word G0 or G1, whether or not
\* the move mode changed.
C19_ModeAfterMCode ==
    gen.dialect = "grbl" =>
        \A i \in DOMAIN gen.Lines : \A j \in DOMAIN gen.Lines :
            FirstMoveAfter(i, j) =>
                /\ gen.Lines[j].words # <<>>
                /\ gen.Lines[j].words[1] \in {G(0), G(1)}

\* C19 witness: the GRBL generator has written an M-code line and then a
\* move line for a Position whose move mode is the one of the Position
\* before it, and the move line carries G1.
C19_ModeRepeated ==
    /\ gen.dialect = "grbl" /\ genLog.n >= 2
    /\ genLog.last.err = "" /\ genLog.prev.err = ""
    /\ genLog.last.target.State.MoveMode = genLog.prev.target.State.MoveMode
    /\ \E i \in DOMAIN gen.Lines :
        /\ FirstMoveAfter(i, Len(gen.Lines))
        /\ gen.Lines[Len(gen.Lines)].words[1] = G(1)
        /\ gen.Lines[Len(gen.Lines)] \in
               {genLog.last.emitted[k] : k \in DOMAIN genLog.last.emitted}

\* The last two calls of HandlePosition had the same target and the
\* first of them returned no error.
CalledTwice ==
    /\ genLog.n >= 2
    /\ genLog.prev.target = genLog.last.target
    /\ genLog.prev.err = ""

RECURSIVE SqrtBetween(_, _, _)
SqrtBetween(n, lo, hi) ==
    IF lo >= hi THEN lo
    ELSE LET mid == (lo + hi + 1) \div 2
         IN  IF mid * mid <= n THEN SqrtBetween(n, mid, hi) ELSE SqrtBetween(n, lo, mid - 1)

\* Vector.Norm, in microns.
Norm(v) == SqrtBetween(10000 * (v[1] * v[1] + v[2] * v[2] + v[3] * v[3]), 0, 46000)

\* ---- OptVector ----

vectorStep(s, m, tolerance) ==
    IF m.State.MoveMode \notin {MoveModeLinear, MoveModeRapid}
    THEN [s EXCEPT !.ready = 0, !.npos = Append(@, m)]
    ELSE LET changed == m.State.MoveMode # s.lastMoveMode
             ready == IF changed THEN 0 ELSE s.ready
             s1 == [s EXCEPT !.lastMoveMode = m.State.MoveMode]
         IN  IF ready = 0
             THEN [s1 EXCEPT !.vec1 = Vector(m), !.ready = 1, !.npos = Append(@, m)]
             ELSE IF ready = 1
             THEN [s1 EXCEPT !.vec2 = Vector(m), !.ready = 2, !.npos = Append(@, m)]
             ELSE LET vec1 == IF ready = 2 THEN s.vec1 ELSE s.vec2
                      vec2 == IF ready = 2 THEN s.vec2 ELSE s.vec3
                      vec3 == Vector(m)
                      length1 == Norm(Diff(vec1, vec2)) + Norm(Diff(vec2, vec3))
                      length2 == Norm(Diff(vec1, vec3))
                  IN  IF length1 - length2 < tolerance
                      THEN [s1 EXCEPT !.vec1 = vec1, !.vec2 = vec1, !.vec3 = vec3,
                                      !.ready = 3, !.npos[Len(s.npos)] = m]
                      ELSE [s1 EXCEPT !.vec1 = vec1, !.vec2 = vec2, !.vec3 = vec3,
                                      !.ready = 3, !.npos = Append(@, m)]

RECURSIVE vectorFrom(_, _, _, _)
vectorFrom(ps, i, s, tolerance) ==
    IF i > Len(ps) THEN s.npos
    ELSE CHOOSE r \in {vectorFrom(ps, i + 1, t, tolerance) :
                           t \in {vectorStep(s, ps[i], tolerance)}} : TRUE

OptVector(m, tolerance) ==
    [m EXCEPT !.Positions =
        vectorFrom(@, 1, [vec1 |-> Zero, vec2 |-> Zero, vec3 |-> Zero, ready |-> 0,
                          lastMoveMode |-> 0, npos |-> <<>>], tolerance)]

\* ---- OptDrillSpeed ----

\* fastDrill: the deepest Z below 0 the stack has at the place of pos, 0
\* when it has none.
drilled(drillStack, pos) ==
    {drillStack[k].Z : k \in {j \in DOMAIN drillStack :
        /\ drillStack[j].X = pos.X /\ drillStack[j].Y = pos.Y /\ drillStack[j].Z < 0}}

\* A depth below every hole.
bottomless(S) == -10000

deepest(S) == CHOOSE z \in S : \A y \in S : z <= y

fast(pos, feedrate, rapid) ==
    IF rapid THEN [pos EXCEPT !.State.MoveMode = MoveModeRapid]
    ELSE [pos EXCEPT !.State.Feedrate = feedrate]

drillStep(s, m, feedrate, rapid) ==
    LET descent == /\ m.X = s.last[1] /\ m.Y = s.last[2] /\ m.Z < s.last[3]
                   /\ m.State.MoveMode = MoveModeLinear
        found == drilled(s.drillStack, m)
        out == IF found = {} THEN <<m>>
               ELSE IF m.Z >= deepest(found) THEN <<fast(m, feedrate, rapid)>>
               ELSE <<fast([m EXCEPT !.Z = deepest(found)], feedrate, rapid), m>>
    IN  IF descent
        THEN [last |-> Vector(m), npos |-> s.npos \o out,
              drillStack |-> Append(s.drillStack, m)]
        ELSE [s EXCEPT !.last = Vector(m), !.npos = Append(@, m)]

RECURSIVE drillFrom(_, _, _, _, _)
drillFrom(ps, i, s, feedrate, rapid) ==
    IF i > Len(ps) THEN s.npos
    ELSE CHOOSE r \in {drillFrom(ps, i + 1, t, feedrate, rapid) :
                           t \in {drillStep(s, ps[i], feedrate, rapid)}} : TRUE

OptDrillSpeed(m, feedrate, rapid) ==
    [m EXCEPT !.Positions =
        drillFrom(@, 1, [last |-> Zero, npos |-> <<>>, drillStack |-> <<>>],
                  feedrate, rapid)]

\* ---- OptPathGrouping ----

\* The first loop: the drill sets.  A panic ends the loop with err set.
groupStep(s, m) ==
    LET same == m.X = s.lastx /\ m.Y = s.lasty
        down == same /\ s.lastz >= 0 /\ m.Z < 0
        up == same /\ ~down /\ s.lastz < 0 /\ m.Z >= 0
        faster == down /\ m.State.MoveMode = MoveModeLinear /\ m.State.Feedrate > s.drillSpeed
        started == IF down THEN TRUE ELSE IF up THEN FALSE ELSE s.sequenceStarted
        last == [s EXCEPT !.lastx = m.X, !.lasty = m.Y, !.lastz = m.Z,
                          !.safetyHeight = IF m.Z > @ THEN m.Z ELSE @]
    IN  IF m.Z # s.lastz /\ ~same THEN [s EXCEPT !.err = "Complex z-motion detected"]
        ELSE IF faster /\ s.drillSpeed # 0
        THEN [s EXCEPT !.err = "Multiple drill feedrates detected"]
        ELSE IF up
        THEN [last EXCEPT !.sets = IF s.sequenceStarted THEN Append(@, s.curSet) ELSE @,
                          !.sequenceStarted = FALSE, !.curSet = <<>>]
        ELSE IF ~same /\ m.Z < 0 /\ m.State.MoveMode = MoveModeRapid
        THEN [s EXCEPT !.err = "Rapid move in stock detected"]
        ELSE IF started /\ m.Z > 0 THEN [s EXCEPT !.err = "Move above stock detected"]
        ELSE [last EXCEPT !.sequenceStarted = started,
                          !.drillSpeed = IF faster THEN m.State.Feedrate ELSE @,
                          !.curSet = IF started THEN Append(@, m) ELSE @]

RECURSIVE groupFrom(_, _, _)
groupFrom(ps, i, s) ==
    IF i > Len(ps) \/ s.err # "" THEN s
    ELSE CHOOSE r \in {groupFrom(ps, i + 1, t) : t \in {groupStep(s, ps[i])}} : TRUE

\* The checks after the first loop.
groupChecks(s) ==
    IF s.err # "" THEN s.err
    ELSE IF s.safetyHeight = 0 THEN "Unable to detect safety height"
    ELSE IF s.drillSpeed = 0 THEN "Unable to detect drill feedrate"
    ELSE IF Len(s.curSet) = 1
    THEN IF \/ s.curSet[1].Z # s.safetyHeight \/ s.lastz # s.safetyHeight
            \/ s.curSet[1].X # 0 \/ s.curSet[1].Y # 0
         THEN "Incomplete final drill set" ELSE ""
    ELSE IF Len(s.curSet) > 0 THEN "Incomplete final drill set"
    ELSE ""

\* xyDiff squared: the order of two distances is the order of their
\* squares.
xyDiff2(pos, cur) ==
    (cur[1] - pos[1]) * (cur[1] - pos[1]) + (cur[2] - pos[2]) * (cur[2] - pos[2])

\* The inner loop of the sort: the set selected after the sets from idx
\* on have been looked at.
RECURSIVE selectFrom(_, _, _, _)
selectFrom(sets, curVec, idx, selectedSet) ==
    IF idx > Len(sets) THEN selectedSet
    ELSE LET np == sets[idx][1]
             pp == sets[selectedSet][1]
             diff == xyDiff2(Vector(np), curVec)
             other == xyDiff2(Vector(pp), curVec)
         IN  IF diff < other \/ np.Z > pp.Z
             THEN selectFrom(sets, curVec, idx + 1, idx)
             ELSE selectFrom(sets, curVec, idx + 1, selectedSet)

without(sets, k) == SubSeq(sets, 1, k - 1) \o SubSeq(sets, k + 1, Len(sets))

RECURSIVE sortSets(_, _, _)
sortSets(sets, curVec, sortedSets) ==
    IF sets = <<>> THEN sortedSets
    ELSE \* Bound: the selected set is computed once
         CHOOSE r \in {sortSets(without(sets, k), Vector(sets[k][1]),
                                Append(sortedSets, sets[k])) :
                           k \in {selectFrom(sets, curVec, 1, 1)}} : TRUE

\* A reconstruction that stops above the set: up and across, not down.
moveToAbove(newPos, pos, safetyHeight, drillSpeed, tolerance) ==
    LET up == [newPos[Len(newPos)] EXCEPT !.Z = safetyHeight,
                                          !.State.MoveMode = MoveModeRapid]
    IN  <<up, [up EXCEPT !.X = pos.X, !.Y = pos.Y]>>

\* moveTo of the reconstruction: the Positions added to reach pos.
moveTo(newPos, pos, safetyHeight, drillSpeed, tolerance) ==
    LET cur == newPos[Len(newPos)]
    IN  IF Norm(<<cur.X - pos.X, cur.Y - pos.Y, 0>>) < tolerance
        THEN IF cur.X # pos.X \/ cur.Y # pos.Y
             THEN <<[cur EXCEPT !.State.MoveMode = MoveModeLinear,
                                   !.X = pos.X, !.Y = pos.Y], pos>>
             ELSE <<pos>>
        ELSE LET step1 == [cur EXCEPT !.Z = safetyHeight,
                                         !.State.MoveMode = MoveModeRapid]
                 step2 == [step1 EXCEPT !.X = pos.X, !.Y = pos.Y]
                 step3 == [step2 EXCEPT !.Z = pos.Z, !.State.MoveMode = MoveModeLinear,
                                        !.State.Feedrate = drillSpeed]
             IN  <<step1, step2, step3>>

RECURSIVE rebuild(_, _, _, _, _)
rebuild(sortedSets, newPos, safetyHeight, drillSpeed, tolerance) ==
    IF sortedSets = <<>> THEN newPos
    ELSE CHOOSE r \in {rebuild(Tail(sortedSets), np, safetyHeight, drillSpeed, tolerance) :
            np \in {newPos \o moveTo(newPos, Head(sortedSets)[1], safetyHeight,
                                     drillSpeed, tolerance)
                           \o Tail(Head(sortedSets))}} : TRUE

groupInit ==
    [lastx |-> 0, lasty |-> 0, lastz |-> 0, sets |-> <<>>, curSet |-> <<>>,
     safetyHeight |-> 0, drillSpeed |-> 0, sequenceStarted |-> FALSE, err |-> ""]

\* The sets in the order of the sort.
sortedSetsOf(ps) == sortSets(groupFrom(ps, 1, groupInit).sets, Zero, <<>>)

\* A pass that has cleared the trace before it bails out.
OptPathGroupingEager(m, tolerance) ==
    [m |-> [m EXCEPT !.Positions = <<m.Positions[1]>>],
     err |-> groupChecks(groupFrom(m.Positions, 1, groupInit))]

\* OptPathGrouping: the trace is assigned in the last statement; a panic
\* before it is recovered and returned.
OptPathGrouping(m, tolerance) ==
    CHOOSE r \in {IF groupChecks(s) # "" THEN [m |-> m, err |-> groupChecks(s)]
                  ELSE [m |-> [m EXCEPT !.Positions =
                                  rebuild(sortSets(s.sets, Zero, <<>>), <<m.Positions[1]>>,
                                          s.safetyHeight, s.drillSpeed, tolerance)],
                        err |-> ""] :
                  s \in {groupFrom(m.Positions, 1, groupInit)}} : TRUE

\* ---- vm/utils.go ----

RECURSIVE heightsFrom(_, _, _, _)
heightsFrom(ps, i, maxz, nextz) ==
    IF i > Len(ps) THEN [maxz |-> maxz, nextz |-> nextz]
    ELSE LET z == ps[i].Z
             max1 == IF z > maxz THEN z ELSE maxz
             next1 == IF z > maxz THEN maxz ELSE nextz
             next2 == IF z > next1 /\ z < max1 THEN z ELSE next1
         IN  heightsFrom(ps, i + 1, max1, next2)

\* Machine.SetSafetyHeight: a Position at the highest Z gets the height
\* when its X and Y are those of the Position before it.
SetSafetyHeight(m, height) ==
    LET ps == m.Positions
        h == heightsFrom(ps, 1, 0, 0)
        lastx(i) == IF i = 1 THEN 0 ELSE ps[i - 1].X
        lasty(i) == IF i = 1 THEN 0 ELSE ps[i - 1].Y
    IN  IF height <= h.nextz
        THEN [m |-> m, err |-> "New safety height collides with lower feed height"]
        ELSE [m |-> [m EXCEPT !.Positions =
                        [i \in 1..Len(ps) |->
                            IF lastx(i) = ps[i].X /\ lasty(i) = ps[i].Y /\ ps[i].Z = h.maxz
                            THEN [ps[i] EXCEPT !.Z = height] ELSE ps[i]]],
              err |-> ""]

\* A Return that appends nothing.
returnMovesNone(lastPos, maxz) == <<>>

\* The moves Return appends after lastPos.
returnMoves(lastPos, maxz) ==
    LET rapid == [lastPos EXCEPT !.State.MoveMode = MoveModeRapid]
    IN  IF lastPos.X = 0 /\ lastPos.Y = 0 /\ lastPos.Z = 0 THEN <<>>
        ELSE IF lastPos.X = 0 /\ lastPos.Y = 0 THEN <<[rapid EXCEPT !.Z = 0]>>
        ELSE IF lastPos.Z = maxz
        THEN <<[rapid EXCEPT !.X = 0, !.Y = 0], [rapid EXCEPT !.X = 0, !.Y = 0, !.Z = 0]>>
        ELSE <<[rapid EXCEPT !.Z = maxz], [rapid EXCEPT !.Z = maxz, !.X = 0, !.Y = 0],
               [rapid EXCEPT !.X = 0, !.Y = 0, !.Z = 0]>>

\* Machine.Return.
Return(m) ==
    [m EXCEPT !.Positions =
        @ \o returnMoves(@[Len(@)], heightsFrom(@, 1, 0, 0).maxz)]

\* ---- the specification of the passes ----

MaxPath == 4
MaxHoles == 2

Origin == Position(ZeroState, Zero)

\* The traces handed to the passes are built the way Process builds
\* them: from the origin, a move appends a Position with the mode and
\* the feedrate of the move, a dwell appends one at the place of the
\* last Position.
after(ps, to, mode, feed) ==
    Append(ps, Position([ps[Len(ps)].State EXCEPT !.MoveMode = mode, !.Feedrate = feed], to))

linearTo(ps, to, feed) == after(ps, to, MoveModeLinear, feed)
rapidTo(ps, to) == after(ps, to, MoveModeRapid, ps[Len(ps)].State.Feedrate)

PathSteps ==
    {[to |-> <<10, 0, -10>>, mode |-> MoveModeLinear, feed |-> 600],
     [to |-> <<20, 0, -10>>, mode |-> MoveModeLinear, feed |-> 600],
     [to |-> <<30, 0, -10>>, mode |-> MoveModeLinear, feed |-> 600],
     [to |-> <<30, 0, -10>>, mode |-> MoveModeLinear, feed |-> 1200],
     [to |-> <<30, 0, -10>>, mode |-> MoveModeRapid, feed |-> 600],
     [to |-> <<20, 10, -10>>, mode |-> MoveModeLinear, feed |-> 600],
     [to |-> <<20, 0, -10>>, mode |-> MoveModeRapid, feed |-> 600],
     [to |-> <<>>, mode |-> MoveModeDwell, feed |-> 600]}

RECURSIVE Path(_, _)
Path(steps, ps) ==
    IF steps = <<>> THEN ps
    ELSE LET s == Head(steps)
         IN  Path(Tail(steps),
                  IF s.mode = MoveModeDwell
                  THEN Append(ps, [ps[Len(ps)] EXCEPT !.State.MoveMode = MoveModeDwell,
                                                      !.State.DwellTime = 10])
                  ELSE after(ps, s.to, s.mode, s.feed))

\* A drill job: from the origin up to the height 5, then one hole after
\* the other: over the hole, down at the feedrate 60, a cut along X when
\* the hole has one, and up again.  The job ends lifted, or below Z0
\* without the last lift, or with a move along X and Z at once in the
\* last hole.
Holes == [x : {0, 10, 30}, z : {-10, -20}, cut : BOOLEAN]

drill(ps, h, ending) ==
    LET over == rapidTo(ps, <<h.x, 0, 50>>)
        down == linearTo(over, <<h.x, 0, h.z>>, 600)
        cut == IF h.cut THEN linearTo(down, <<h.x + 10, 0, h.z>>, 600) ELSE down
        slope == IF ending = "slope"
                 THEN linearTo(cut, <<cut[Len(cut)].X + 10, 0, h.z - 10>>, 600) ELSE cut
    IN  IF ending = "below" THEN slope
        ELSE rapidTo(slope, <<slope[Len(slope)].X, 0, 50>>)

RECURSIVE DrillJob(_, _, _)
DrillJob(holes, ending, ps) ==
    IF holes = <<>> THEN ps
    ELSE DrillJob(Tail(holes), ending,
                  drill(ps, Head(holes), IF Len(holes) = 1 THEN ending ELSE "lifted"))

\* A path that bends a little at every Position.
Curve ==
    linearTo(linearTo(linearTo(linearTo(<<Origin>>, <<10, 0, 0>>, 600),
                               <<20, 0, 0>>, 600), <<30, 3, 0>>, 600), <<40, 4, 0>>, 600)

\* main runs OptDrillSpeed before the route grouping: the drill jobs as
\* OptDrillSpeed with rapid moves leaves them.
Redrilled ==
    {OptDrillSpeed([Positions |-> DrillJob(holes, "lifted", rapidTo(<<Origin>>, <<0, 0, 50>>))],
                   1200, TRUE).Positions : holes \in SeqsUpTo(Holes, MaxHoles)}

\* Two holes, at X1 and at X3, each drilled at its own feedrate.
TwoFeeds ==
    {rapidTo(linearTo(rapidTo(rapidTo(linearTo(rapidTo(rapidTo(<<Origin>>, <<0, 0, 50>>),
         <<10, 0, 50>>), <<10, 0, -10>>, f1), <<10, 0, 50>>),
         <<30, 0, 50>>), <<30, 0, -10>>, f2), <<30, 0, 50>>) :
        f1 \in {300, 600}, f2 \in {300, 600}}

PassTraces ==
    {Path(steps, <<Origin>>) : steps \in SeqsUpTo(PathSteps, MaxPath)}
    \cup {DrillJob(holes, ending, rapidTo(<<Origin>>, <<0, 0, 50>>)) :
              holes \in SeqsUpTo(Holes, MaxHoles), ending \in {"lifted", "below", "slope"}}
    \cup {Curve}
    \cup Redrilled
    \cup TwoFeeds

InitPass ==
    /\ InitSendWith({<<>>}) /\ pc = "idle"
    /\ machine \in {[Positions |-> t] : t \in PassTraces}
    /\ vmpc = "trace" /\ doc = <<>>
    /\ lastMove = [set |-> FALSE]
    /\ lastRun = [ran |-> FALSE, pass |-> "", arg |-> 0, before |-> <<>>, err |-> ""]
    /\ GenIdle

\* The call of one pass: the trace it leaves and the error it returns.
Applied(pass, arg, m, err) ==
    /\ machine' = m
    /\ lastRun' = [ran |-> FALSE, pass |-> pass, arg |-> arg,
                   before |-> machine.Positions, err |-> err]
    /\ vmpc' = "passed"
    /\ UNCHANGED <<doc, lastMove, genVars, sendVars, driverVars>>

ApplyOptDrillSpeed(feedrate, rapid) ==
    /\ vmpc = "trace"
    /\ \E m \in {OptDrillSpeed(machine, feedrate, rapid)} : Applied("OptDrillSpeed", feedrate, m, "")

ApplyOptPathGrouping(tolerance) ==
    /\ vmpc = "trace"
    /\ \E r \in {OptPathGrouping(machine, tolerance)} : Applied("OptPathGrouping", tolerance, r.m, r.err)

ApplyOptBogusMoves ==
    /\ vmpc = "trace"
    /\ \E m \in {OptBogusMoves(machine)} : Applied("OptBogusMoves", 0, m, "")

ApplyOptVector(tolerance) ==
    /\ vmpc = "trace"
    /\ \E m \in {OptVector(machine, tolerance)} : Applied("OptVector", tolerance, m, "")

ApplyOptLiftSpeed ==
    /\ vmpc = "trace"
    /\ \E m \in {OptLiftSpeed(machine)} : Applied("OptLiftSpeed", 0, m, "")

ApplySetSafetyHeight(height) ==
    /\ vmpc = "trace"
    /\ \E r \in {SetSafetyHeight(machine, height)} : Applied("SetSafetyHeight", height, r.m, r.err)

ApplyReturn ==
    /\ vmpc = "trace"
    /\ \E m \in {Return(machine)} : Applied("Return", 0, m, "")

NextPass ==
    \/ \E rapid \in BOOLEAN : ApplyOptDrillSpeed(1200, rapid)
    \/ ApplyOptPathGrouping(1)
    \/ ApplyOptBogusMoves
    \/ \E tolerance \in {3, 20} : ApplyOptVector(tolerance)
    \/ ApplyOptLiftSpeed
    \/ \E height \in {30, 80} : ApplySetSafetyHeight(height)
    \/ ApplyReturn

SpecPass == InitPass /\ [][NextPass]_vars

\* ---- claims about the passes ----

Ran(pass) == vmpc = "passed" /\ lastRun.pass = pass

\* Some move of the trace changes X and Z at once with an end below Z0.
SlopeBelow(ps) ==
    \E i \in 2..Len(ps) :
        /\ ps[i].Z # ps[i - 1].Z /\ ps[i].X # ps[i - 1].X
        /\ (ps[i].Z < 0 \/ ps[i - 1].Z < 0)

EndsBelow(ps) == ps[Len(ps)].Z < 0

\* C21: when route grouping returns an error the trace is the one it was
\* given, and it returns an error for a trace with a move along X and Z
\* at once below Z0 and for a trace that ends below Z0.
C21_BailoutKeepsTrace ==
    Ran("OptPathGrouping") =>
        /\ lastRun.err # "" => machine.Positions = lastRun.before
        /\ (SlopeBelow(lastRun.before) \/ EndsBelow(lastRun.before)) => lastRun.err # ""

\* C21 witness: route grouping has bailed out of a drill job of two
\* holes whose last hole has a move along X and Z at once.
C21_BailedOut ==
    /\ Ran("OptPathGrouping")
    /\ lastRun.err = "Complex z-motion detected"
    /\ SlopeBelow(lastRun.before) /\ ~EndsBelow(lastRun.before)
    /\ Len(lastRun.before) >= 8

\* The cursor of the sort before the k-th set is chosen: the origin,
\* then the first Position of the set chosen last.
Cursor(sorted, k) == IF k = 1 THEN Zero ELSE Vector(sorted[k - 1][1])

\* C22: in the order route grouping gives the drill sets, no set is
\* farther from the cursor than a set that comes after it, and of two
\* sets at the same distance the one with the higher z comes first.
C22_NearestFirst ==
    (Ran("OptPathGrouping") /\ lastRun.err = "") =>
        LET sorted == sortedSetsOf(lastRun.before)
        IN  \A k \in DOMAIN sorted : \A j \in DOMAIN sorted :
                k < j =>
                    LET dk == xyDiff2(Vector(sorted[k][1]), Cursor(sorted, k))
                        dj == xyDiff2(Vector(sorted[j][1]), Cursor(sorted, k))
                    IN  dk < dj \/ (dk = dj /\ sorted[k][1].Z >= sorted[j][1].Z)

\* The places in the plane the trace reaches below Z0.
XYTips(ps) == {<<ps[i].X, ps[i].Y>> : i \in {k \in DOMAIN ps : ps[k].Z < 0}}

Optimizers == {"OptDrillSpeed", "OptPathGrouping", "OptBogusMoves", "OptVector", "OptLiftSpeed"}

Cutting(st) ==
    <<st.MoveMode, st.Feedrate, st.SpindleEnabled, st.SpindleClockwise, st.SpindleSpeed,
      st.FloodCoolant, st.MistCoolant>>

Distinct(ps) == \A i \in DOMAIN ps : \A j \in DOMAIN ps : ps[i] = ps[j] => i = j

Survives(ps, out, i) == \E j \in DOMAIN out : out[j] = ps[i]

\* C24: when the removal of redundant moves has taken a move out of a
\* trace of distinct Positions, the next Position that is left has the
\* mode, the feedrate, the spindle and the coolant of the move taken out.
C24_SameStateSurvives ==
    (vmpc = "passed" /\ lastRun.pass \in {"OptBogusMoves", "OptVector"}
        /\ Distinct(lastRun.before)) =>
        LET ps == lastRun.before
        IN  \A i \in 2..Len(ps) : \A k \in (i + 1)..Len(ps) :
                (/\ ps[i].State.MoveMode \in {MoveModeLinear, MoveModeRapid}
                 /\ Vector(ps[i]) # Vector(ps[i - 1])
                 /\ Survives(ps, machine.Positions, k)
                 /\ \A j \in i..(k - 1) : ~Survives(ps, machine.Positions, j))
                    => Cutting(ps[i].State) = Cutting(ps[k].State)

\* Three Positions in a line, the second between the others: by the
\* measure of OptVector for a tolerance, by the direction when the
\* tolerance is 0.
Collinear(a, b, c, tolerance) ==
    IF tolerance = 0
    THEN SameDirection(Diff(Vector(c), Vector(b)), Diff(Vector(b), Vector(a)))
    ELSE Norm(Diff(Vector(a), Vector(b))) + Norm(Diff(Vector(b), Vector(c)))
             - Norm(Diff(Vector(a), Vector(c))) < tolerance

\* C25: after the removal of redundant moves no three Positions in a
\* row that are all Linear or all Rapid are collinear within the
\* tolerance of the pass.
C25_NoCollinearTriple ==
    (vmpc = "passed" /\ lastRun.pass \in {"OptBogusMoves", "OptVector"}) =>
        LET ps == machine.Positions
        IN  \A i \in 3..Len(ps) :
                (/\ ps[i].State.MoveMode \in {MoveModeLinear, MoveModeRapid}
                 /\ ps[i - 1].State.MoveMode = ps[i].State.MoveMode
                 /\ ps[i - 2].State.MoveMode = ps[i].State.MoveMode)
                    => ~Collinear(ps[i - 2], ps[i - 1], ps[i], lastRun.arg)

\* C26: when SetSafetyHeight has succeeded with a height other than the
\* highest Z of the trace, no Position is at that Z any more.
C26_NoneAtOldHeight ==
    (Ran("SetSafetyHeight") /\ lastRun.err = ""
        /\ lastRun.arg # heightsFrom(lastRun.before, 1, 0, 0).maxz) =>
        \A i \in DOMAIN machine.Positions :
            machine.Positions[i].Z # heightsFrom(lastRun.before, 1, 0, 0).maxz

\* The places of a sequence of Positions, a place reached twice in a row
\* taken once.
RECURSIVE Route(_)
Route(ps) ==
    IF Len(ps) <= 1 THEN [i \in DOMAIN ps |-> Vector(ps[i])]
    ELSE IF Vector(ps[1]) = Vector(ps[2]) THEN Route(Tail(ps))
    ELSE <<Vector(ps[1])>> \o Route(Tail(ps))

Added == SubSeq(machine.Positions, Len(lastRun.before) + 1, Len(machine.Positions))

\* Return has left the trace it was given and has appended rapids that
\* end at the origin.
ReturnsHome ==
    /\ SubSeq(machine.Positions, 1, Len(lastRun.before)) = lastRun.before
    /\ \A i \in DOMAIN Added : Added[i].State.MoveMode = MoveModeRapid
    /\ Vector(machine.Positions[Len(machine.Positions)]) = Zero

\* The way home over the highest Z: up, across, down.
OverTheTop(last) ==
    LET maxz == heightsFrom(lastRun.before, 1, 0, 0).maxz
        up == [last EXCEPT !.Z = maxz]
        across == [up EXCEPT !.X = 0, !.Y = 0]
    IN  Route(<<last, up, across, Origin>>)

StraightHome(last) == Route(<<last, Origin>>)

\* C27 as stated: Return goes straight to the origin from a last
\* Position at X0 Y0 above Z0, and over the highest Z from any other.
C27_ReturnAboveOnly ==
    Ran("Return") =>
        LET last == lastRun.before[Len(lastRun.before)]
        IN  /\ ReturnsHome
            /\ Route(<<last>> \o Added) =
                   IF last.X = 0 /\ last.Y = 0 /\ last.Z > 0
                   THEN StraightHome(last) ELSE OverTheTop(last)

\* C27: Return appends rapids only, leaves the Positions before them as
\* they were and ends the trace at the origin: straight from a last
\* Position at X0 Y0, above or below Z0, and over the highest Z from any
\* other.
C27_ReturnFromAxis ==
    Ran("Return") =>
        LET last == lastRun.before[Len(lastRun.before)]
        IN  /\ ReturnsHome
            /\ Route(<<last>> \o Added) =
                   IF last.X = 0 /\ last.Y = 0
                   THEN StraightHome(last) ELSE OverTheTop(last)

\* C27 witness: Return has brought a trace home that ended away from
\* X0 Y0 and below the highest Z, with three rapids.
C27_ReturnedOverTheTop ==
    /\ Ran("Return")
    /\ Len(Added) = 3
    /\ lastRun.before[Len(lastRun.before)].Z < 0
    /\ heightsFrom(lastRun.before, 1, 0, 0).maxz = 50
    /\ ReturnsHome

\* ======================================================================
\* The parser and the export of a Document (package gcode).  A text is a
\* sequence of characters.  The Command of a Word is a decimal number
\* <<m, e>> that stands for m / 10^e, with no zero at the end of its
\* fraction.
\* ======================================================================

Digits == <<"0", "1", "2", "3", "4", "5", "6", "7", "8", "9">>
IsDigit(c) == \E d \in 1..10 : Digits[d] = c
DigitOf(c) == (CHOOSE d \in 1..10 : Digits[d] = c) - 1

LowerCase == {"g", "x", "m"}
UpperCase == {"G", "X", "M", "@", "^"}
ToUpper(c) == CASE c = "g" -> "G" [] c = "x" -> "X" [] c = "m" -> "M" [] OTHER -> c

RECURSIVE Shorten(_, _)
Shorten(m, e) == IF e > 0 /\ m % 10 = 0 THEN Shorten(m \div 10, e - 1) ELSE <<m, e>>

RECURSIVE NumberOf(_, _, _, _)
NumberOf(buffer, m, e, inFraction) ==
    IF buffer = <<>> THEN Shorten(m, e)
    ELSE IF Head(buffer) = "." THEN NumberOf(Tail(buffer), m, e, TRUE)
    ELSE NumberOf(Tail(buffer), 10 * m + DigitOf(Head(buffer)),
                  IF inFraction THEN e + 1 ELSE e, inFraction)

\* strconv.ParseFloat with its error dropped: 0 for a buffer that is not
\* a number.
ParseFloat(buffer) ==
    LET signed == buffer # <<>> /\ Head(buffer) \in {"+", "-"}
        digits == IF signed THEN Tail(buffer) ELSE buffer
        points == {i \in DOMAIN digits : digits[i] = "."}
        valid == /\ \A i \in DOMAIN digits : IsDigit(digits[i]) \/ digits[i] = "."
                 /\ Cardinality(points) <= 1
                 /\ \E i \in DOMAIN digits : IsDigit(digits[i])
        n == NumberOf(digits, 0, 0, FALSE)
    IN  IF ~valid THEN <<0, 0>>
        ELSE IF signed /\ Head(buffer) = "-" THEN <<-n[1], n[2]>> ELSE n

ParserInit ==
    [Blocks |-> <<>>, curBlock |-> [Nodes |-> <<>>, BlockDelete |-> FALSE],
     state |-> "normal", col |-> 0, buffer |-> <<>>, address |-> "", err |-> ""]

AppendNode(s, n) == [s EXCEPT !.curBlock.Nodes = Append(@, n)]

\* parseNormal.  col is idx - lastNewline at the next character.
parseNormal(s, c) ==
    LET next == [s EXCEPT !.col = @ + 1]
    IN  CASE c = "/" -> IF s.col = 0
                        THEN [s EXCEPT !.curBlock.BlockDelete = TRUE, !.col = @ + 2]
                        ELSE [s EXCEPT !.err = "Unexpected /"]
          [] c = "%" -> AppendNode(next, [t |-> "filemarker"])
          [] c = "(" -> [next EXCEPT !.state = "comment"]
          [] c = ";" -> [next EXCEPT !.state = "eolcomment"]
          [] c = "\n" -> [s EXCEPT !.Blocks = Append(@, s.curBlock),
                                   !.curBlock = [Nodes |-> <<>>, BlockDelete |-> FALSE],
                                   !.col = 0]
          [] c = " " -> next
          [] c \in LowerCase \cup UpperCase ->
                [next EXCEPT !.state = "word", !.address = ToUpper(c)]
          [] OTHER -> [s EXCEPT !.err = "Expected word address"]

parseComment(s, c) ==
    CASE c = ")" -> [AppendNode(s, [t |-> "comment", Content |-> s.buffer, EOL |-> FALSE])
                        EXCEPT !.state = "normal", !.buffer = <<>>, !.col = @ + 1]
      [] c = "\n" -> [s EXCEPT !.err = "Non-terminated comment"]
      [] OTHER -> [s EXCEPT !.buffer = Append(@, c), !.col = @ + 1]

parseEOLComment(s, c) ==
    IF c = "\n"
    THEN parseNormal([AppendNode(s, [t |-> "comment", Content |-> s.buffer, EOL |-> TRUE])
                         EXCEPT !.state = "normal", !.buffer = <<>>], c)
    ELSE [s EXCEPT !.buffer = Append(@, c), !.col = @ + 1]

parseWord(s, c) ==
    IF IsDigit(c) \/ c \in {".", "-", "+"}
    THEN [s EXCEPT !.buffer = Append(@, c), !.col = @ + 1]
    ELSE parseNormal([AppendNode(s, [t |-> "word", a |-> s.address,
                                     c |-> ParseFloat(s.buffer)])
                         EXCEPT !.state = "normal", !.buffer = <<>>], c)

parseChar(s, c) ==
    CASE s.state = "normal" -> parseNormal(s, c)
      [] s.state = "comment" -> parseComment(s, c)
      [] s.state = "eolcomment" -> parseEOLComment(s, c)
      [] s.state = "word" -> parseWord(s, c)

RECURSIVE parseFrom(_, _, _)
parseFrom(input, idx, s) ==
    IF idx > Len(input) \/ s.err # "" THEN s
    ELSE CHOOSE r \in {parseFrom(input, idx + 1, t) : t \in {parseChar(s, input[idx])}} : TRUE

\* gcode.Parse: the Document, or the error of the panic.
Parse(input) ==
    CHOOSE r \in {[Blocks |-> IF s.err = "" THEN s.Blocks ELSE <<>>, err |-> s.err] :
                    s \in {parseFrom(Append(input, "\n"), 1, ParserInit)}} : TRUE

\* The decimal digits of a natural number.
RECURSIVE DigitsOf(_)
DigitsOf(n) == IF n < 10 THEN <<Digits[n + 1]>> ELSE Append(DigitsOf(n \div 10), Digits[(n % 10) + 1])

RECURSIVE Zeros(_)
Zeros(n) == IF n <= 0 THEN <<>> ELSE <<"0">> \o Zeros(n - 1)

RECURSIVE StripZeros(_)
StripZeros(x) ==
    IF x[Len(x)] = "0" THEN StripZeros(SubSeq(x, 1, Len(x) - 1))
    ELSE IF x[Len(x)] = "." THEN SubSeq(x, 1, Len(x) - 1)
    ELSE x

\* strconv.FormatFloat(f, 'f', -1, 64): the shortest decimal that gives f.
FormatFloat(f) ==
    LET abs == IF f[1] < 0 THEN -f[1] ELSE f[1]
        d == DigitsOf(abs)
        all == Zeros(f[2] + 1 - Len(d)) \o d
        x == IF f[2] = 0 THEN d
             ELSE SubSeq(all, 1, Len(all) - f[2]) \o <<".">>
                  \o SubSeq(all, Len(all) - f[2] + 1, Len(all))
    IN  (IF f[1] < 0 THEN <<"-">> ELSE <<>>) \o x

\* Word.Export, Comment.Export and Filemarker.Export, with as many digits
\* as the Command needs.
NodeExport(n) ==
    CASE n.t = "word" ->
            LET x == FormatFloat(n.c)
            IN  <<n.a>> \o (IF \E i \in DOMAIN x : x[i] = "." THEN StripZeros(x) ELSE x)
      [] n.t = "comment" ->
            IF n.EOL THEN <<";">> \o n.Content ELSE <<"(">> \o n.Content \o <<")">>
      [] OTHER -> <<"%">>

RECURSIVE Concat(_)
Concat(ss) == IF ss = <<>> THEN <<>> ELSE Head(ss) \o Concat(Tail(ss))

\* A Block.Export that writes a deleted block with its mark.
BlockExportMarked(b) ==
    (IF b.BlockDelete THEN <<"/">> ELSE <<>>)
        \o Concat([i \in DOMAIN b.Nodes |-> NodeExport(b.Nodes[i])])

\* Block.Export: nothing for a deleted block.
BlockExport(b) ==
    IF b.BlockDelete THEN <<>>
    ELSE Concat([i \in DOMAIN b.Nodes |-> NodeExport(b.Nodes[i])])

\* Document.Export: the blocks joined by newlines.
DocumentExport(blocks) ==
    Concat([i \in DOMAIN blocks |->
                (IF i > 1 THEN <<"\n">> ELSE <<>>) \o BlockExport(blocks[i])])

\* ---- the specification of the parser ----

MaxInput == 4

Alphabet == {"G", "1", ".", " ", "\t", "\r", "\n", "/", "(", ")", ";"}

InitText ==
    /\ InitSendWith({<<>>}) /\ pc = "idle"
    /\ machine = [Positions |-> <<>>] /\ vmpc = "idle" /\ doc = <<>>
    /\ lastMove = [set |-> FALSE] /\ lastRun = [ran |-> FALSE]
    /\ gen = [dialect |-> "none"] /\ genLog = [n |-> 0] /\ checked = [done |-> FALSE]
    /\ conn = [pc |-> "none"]
    /\ text \in {[stage |-> "input", input |-> i] : i \in SeqsUpTo(Alphabet, MaxInput)}

\* main: the file is parsed.
ParseInput ==
    /\ text.stage = "input"
    /\ \E r \in {Parse(text.input)} :
        text' = [stage |-> "parsed", input |-> text.input, Blocks |-> r.Blocks, err |-> r.err]
    /\ UNCHANGED <<gen, genLog, checked, conn, machine, vmpc, doc, lastMove, lastRun,
                   sendVars, driverVars>>

\* The Document is exported and the export is parsed.
ExportAndParse ==
    /\ text.stage = "parsed" /\ text.err = ""
    /\ \E e \in {DocumentExport(text.Blocks)} :
        text' = [stage |-> "again", input |-> text.input, Blocks |-> text.Blocks,
                 err |-> "", exported |-> e, again |-> Parse(e)]
    /\ UNCHANGED <<gen, genLog, checked, conn, machine, vmpc, doc, lastMove, lastRun,
                   sendVars, driverVars>>

NextText == ParseInput \/ ExportAndParse

SpecText == InitText /\ [][NextText]_vars

\* ---- claims about the parser ----

\* Two Documents with the same blocks in the same order: the same block
\* delete marks, the same Words, the same Comments whatever their style.
SameNode(n, o) ==
    /\ n.t = o.t
    /\ n.t = "word" => n.a = o.a /\ n.c = o.c
    /\ n.t = "comment" => n.Content = o.Content

Equivalent(bs, cs) ==
    /\ Len(bs) = Len(cs)
    /\ \A i \in DOMAIN bs :
        /\ bs[i].BlockDelete = cs[i].BlockDelete
        /\ Len(bs[i].Nodes) = Len(cs[i].Nodes)
        /\ \A k \in DOMAIN bs[i].Nodes : SameNode(bs[i].Nodes[k], cs[i].Nodes[k])

Deleted(bs) == \E i \in DOMAIN bs : bs[i].BlockDelete

RECURSIVE NextSolid(_)
NextSolid(input) ==
    IF input = <<>> THEN "\n"
    ELSE IF Head(input) \in {" ", "\t", "\r"} THEN NextSolid(Tail(input))
    ELSE Head(input)

\* The text without its whitespace between words: the spaces, tabs and
\* carriage returns of a block that stand outside a comment and before a
\* word, a comment or the end of the block.
RECURSIVE Unspaced(_, _)
Unspaced(input, where) ==
    IF input = <<>> THEN <<>>
    ELSE LET c == Head(input)
             to == CASE where = "comment" -> IF c \in {")", "\n"} THEN "block" ELSE where
                     [] where = "eolcomment" -> IF c = "\n" THEN "block" ELSE where
                     [] c = "(" -> "comment"
                     [] c = ";" -> "eolcomment"
                     [] OTHER -> "block"
             between == /\ where = "block" /\ c \in {" ", "\t", "\r"}
                        /\ NextSolid(input) \in LowerCase \cup UpperCase \cup {"(", ";", "\n"}
         IN  IF between THEN Unspaced(Tail(input), to)
             ELSE <<c>> \o Unspaced(Tail(input), to)

\* C29: a text with spaces, tabs and carriage returns between its words
\* parses as the text without them does: to the same words or to the
\* same error.
C29_WhitespaceDiscarded ==
    text.stage = "parsed" =>
        LET bare == Parse(Unspaced(text.input, "block"))
        IN  /\ bare.err = "" => text.err = ""
            /\ text.err = "" => text.Blocks = bare.Blocks

\* ======================================================================
\* GrblStreamer.Connect: the port is opened and lines are read until the
\* banner of GRBL comes.  A read gives the bytes up to the newline and no
\* error, or the bytes before the failure and the error.
\* ======================================================================

BannerHead == <<"G", "r", "b", "l", " ">>
BannerTail ==
    <<" ", "[", "'", "$", "'", " ", "f", "o", "r", " ", "h", "e", "l", "p", "]", "\r", "\n">>

\* A banner that is accepted on its first five bytes.
isBannerByHead(m) == Len(m) >= 5 /\ SubSeq(m, 1, 5) = BannerHead

\* The test of Connect for the banner.
isBanner(m) ==
    /\ Len(m) = 26
    /\ SubSeq(m, 1, 5) = BannerHead
    /\ SubSeq(m, 10, Len(m)) = BannerTail

\* One turn of the loop of Connect on what ReadBytes returned.
connectRead(m, err) ==
    IF isBanner(m) THEN "connected"
    ELSE IF m = <<"\r", "\n">> THEN "reading"
    ELSE IF err # "" THEN "failed"
    ELSE "reading"

MaxConnectReads == 3

Banners == {BannerHead \o v \o BannerTail : v \in {<<"0", ".", "9", "g">>, <<"1", ".", "1", "h">>}}

PortReads ==
    {[data |-> b, err |-> ""] : b \in Banners}
    \cup {[data |-> BannerHead \o v \o BannerTail, err |-> ""] :
              v \in {<<"0", ".", "9">>, <<"0", ".", "9", "g", "g">>}}
    \cup {[data |-> <<"g", "r", "b", "l", " ", "0", ".", "9", "g">> \o BannerTail, err |-> ""],
          [data |-> <<"\r", "\n">>, err |-> ""],
          [data |-> <<"\n">>, err |-> ""],
          [data |-> <<"o", "k", "\r", "\n">>, err |-> ""],
          [data |-> <<>>, err |-> "EOF"],
          [data |-> <<"\r">>, err |-> "EOF"],
          [data |-> BannerHead \o <<"0", ".", "9", "g">>, err |-> "EOF"]}

InitConnect ==
    /\ InitSendWith({<<>>}) /\ pc = "idle"
    /\ machine = [Positions |-> <<>>] /\ vmpc = "idle" /\ doc = <<>>
    /\ lastMove = [set |-> FALSE] /\ lastRun = [ran |-> FALSE]
    /\ gen = [dialect |-> "none"] /\ genLog = [n |-> 0] /\ checked = [done |-> FALSE]
    /\ text = [stage |-> "none"]
    /\ conn = [pc |-> "open", reads |-> <<>>]

\* serial.OpenPort returns the port or an error, which Connect returns.
OpenPort(opened) ==
    /\ conn.pc = "open"
    /\ conn' = [conn EXCEPT !.pc = IF opened THEN "reading" ELSE "unopened"]
    /\ UNCHANGED <<gen, genLog, checked, text, machine, vmpc, doc, lastMove, lastRun,
                   sendVars, driverVars>>

\* One ReadBytes of the loop and what Connect does with it.
ConnectRead(r) ==
    /\ conn.pc = "reading" /\ Len(conn.reads) < MaxConnectReads
    /\ conn' = [pc |-> connectRead(r.data, r.err), reads |-> Append(conn.reads, r)]
    /\ UNCHANGED <<gen, genLog, checked, text, machine, vmpc, doc, lastMove, lastRun,
                   sendVars, driverVars>>

NextConnect ==
    \/ \E opened \in BOOLEAN : OpenPort(opened)
    \/ \E r \in PortReads : ConnectRead(r)

SpecConnect == InitConnect /\ [][NextConnect]_vars

\* C30: Connect has returned nil exactly when the line it read last is a
\* banner with a version of four characters; a blank line leaves it
\* reading; a read that fails makes it return the connection error.
C30_ConnectOnBanner ==
    (conn.pc \in {"reading", "connected", "failed"} /\ conn.reads # <<>>) =>
        LET last == conn.reads[Len(conn.reads)]
        IN  /\ conn.pc = "connected" <=> last.data \in Banners
            /\ conn.pc = "failed" <=> last.err # ""
            /\ last.data = <<"\r", "\n">> => conn.pc = "reading"
            /\ \A i \in 1..(Len(conn.reads) - 1) :
                   conn.reads[i].data \notin Banners /\ conn.reads[i].err = ""

\* C30 witness: Connect has returned nil on the banner after a blank
\* line and another line.
C30_ConnectedAfterBlank ==
    /\ conn.pc = "connected"
    /\ Len(conn.reads) = 3
    /\ conn.reads[1].data = <<"\r", "\n">>
    /\ conn.reads[2].data = <<"o", "k", "\r", "\n">>
    /\ conn.reads[3].data \in Banners

\* ======================================================================
\* The first Position of a trace.
\* ======================================================================

\* C31: the first Position of the trace is at (0,0,0) and has the State
\* of NewState, the State the code generators start from.
C31_FirstIsDefault ==
    machine.Positions # <<>> =>
        /\ Vector(machine.Positions[1]) = Zero
        /\ machine.Positions[1].State = NewState
        /\ machine.Positions[1].State = GenInit("grbl").Position.State


\* ======================================================================
\* Send with a line longer than the window of the controller.
\* ======================================================================

MaxLongPositions == 2

\* Line expansions with one line of 130 bytes.
LongPosLines == {<<>>, <<40>>, <<130>>, <<100, 64>>}

InitLong == InitSendWith(SeqsUpTo(LongPosLines, MaxLongPositions)) /\ pc = "emit" /\ VMIdle

SpecLong == InitLong /\ [][NextSend]_vars

\* The lines Send has written to the port so far.
Written ==
    {Line(q[1], q[2]) :
        q \in {r \in (1..Len(trace)) \X (1..2) :
                  /\ r[2] <= Len(trace[r[1]])
                  /\ r[1] < posIdx \/ (r[1] = posIdx /\ r[2] < lineIdx)}}

\* HandleRes is about to read the response for list[0].
WaitsForResponse ==
    /\ pc \notin {"failed", "done"}
    /\ InHandleResLoop
    /\ list # <<>> /\ Head(list).kind = "line"

\* C32: Send never waits for a response while every line it has written
\* has been acknowledged, whatever the length of the next line.
C32_NeverWaitsOnNothing ==
    ~(WaitsForResponse /\ Written \subseteq acked)


\* ======================================================================
\* Informational lines of the controller.
\* ======================================================================

\* The streamer reads an informational line in this step.
ReadsInfo ==
    /\ nReads' = nReads + 1 /\ nIOErr' = nIOErr
    /\ respQ # <<>> /\ Head(respQ).t = "other"

\* C33: an informational line is ignored and is not the acknowledgment of
\* a pending line: after reading it the streamer waits for the response
\* of the same line, at the same place, with the same lines pending.
C33_InfoIsNotAnAck ==
    [][ReadsInfo =>
          /\ pc' = pc /\ posIdx' = posIdx /\ lineIdx' = lineIdx
          /\ list' = list /\ length' = length /\ acked' = acked]_vars


\* ======================================================================
\* The spindle and coolant words of the generators.
\* ======================================================================

\* Positions at the origin that differ in the spindle or in the coolant
\* only.
SpindlePositions ==
    {Position([ZeroState EXCEPT !.SpindleEnabled = e, !.SpindleClockwise = c,
                                !.SpindleSpeed = s], Zero) :
        e \in BOOLEAN, c \in BOOLEAN, s \in {0, 10000, 20000}}

CoolantPositions ==
    {Position([ZeroState EXCEPT !.FloodCoolant = f, !.MistCoolant = m], Zero) :
        f \in BOOLEAN, m \in BOOLEAN}

InitMCode == InitGen

NextMCode == \E pos \in SpindlePositions \cup CoolantPositions : CallHandlePosition(pos)

SpecMCode == InitMCode /\ [][NextMCode]_vars

\* All words of the lines, in the order they were written.
RECURSIVE WordsOf(_)
WordsOf(lines) ==
    IF lines = <<>> THEN <<>> ELSE Head(lines).words \o WordsOf(Tail(lines))

\* The speed a controller has after the words: the command of the last S
\* word, 0 when there is none.
RECURSIVE SpeedAfter(_)
SpeedAfter(words) ==
    IF words = <<>> THEN 0
    ELSE IF words[Len(words)].a = "S" THEN words[Len(words)].c
    ELSE SpeedAfter(SubSeq(words, 1, Len(words) - 1))

\* HandlePosition has handled its last target without error.
Handled == genLog.n >= 1 /\ genLog.last.err = ""

\* C34: after HandlePosition has handled a Position whose spindle is
\* enabled, the last S word written is the spindle speed of that
\* Position, and Spindle has written no empty line.
C34_SpeedWordCurrent ==
    Handled =>
        /\ genLog.last.target.State.SpindleEnabled =>
               SpeedAfter(WordsOf(gen.Lines)) = genLog.last.target.State.SpindleSpeed
        /\ \A i \in DOMAIN gen.Lines :
               gen.Lines[i].by = "Spindle" => gen.Lines[i].words # <<>>

\* The flood and mist flags a controller has after the words: M8 turns
\* flood on, M7 turns mist on, M9 turns both off.
RECURSIVE CoolantAfter(_, _)
CoolantAfter(words, flags) ==
    IF words = <<>> THEN flags
    ELSE CoolantAfter(Tail(words),
             CASE Head(words) = M(8) -> [flags EXCEPT !.flood = TRUE]
               [] Head(words) = M(7) -> [flags EXCEPT !.mist = TRUE]
               [] Head(words) = M(9) -> [flood |-> FALSE, mist |-> FALSE]
               [] OTHER -> flags)

\* C35: replaying the coolant words written so far gives the flood and
\* mist flags of the Position just handled.
C35_CoolantReplay ==
    Handled =>
        CoolantAfter(WordsOf(gen.Lines), [flood |-> FALSE, mist |-> FALSE])
            = [flood |-> genLog.last.target.State.FloodCoolant,
               mist |-> genLog.last.target.State.MistCoolant]


\* ======================================================================
\* OptDrillSpeed and the depth already drilled.
\* ======================================================================

SameXY(p, q) == p.X = q.X /\ p.Y = q.Y

\* The Z values of the Positions before index i at the place of ps[i].
ReachedBefore(ps, i) == {ps[j].Z : j \in {k \in 1..(i - 1) : SameXY(ps[k], ps[i])}}

\* Position i of the trace ends a Linear descent.
Descent(ps, i) ==
    /\ i >= 2 /\ SameXY(ps[i - 1], ps[i]) /\ ps[i].Z < ps[i - 1].Z
    /\ ps[i].State.MoveMode = MoveModeLinear

\* C36: a Position OptDrillSpeed has added or changed ends a vertical
\* move that stays at or above the deepest Z reached at its place before
\* the move began, and a Linear descent that ends below every Z reached
\* before at its place is left as it was, Linear at its feedrate.
C36_FastOnlyAboveDrilled ==
    Ran("OptDrillSpeed") =>
        LET B == lastRun.before
            A == machine.Positions
        IN  /\ \A k \in DOMAIN A :
                   A[k] \notin {B[j] : j \in DOMAIN B} =>
                       /\ k >= 2 /\ SameXY(A[k - 1], A[k])
                       /\ \E z \in ReachedBefore(A, k - 1) : z <= A[k].Z
            /\ \A j \in DOMAIN B :
                   (Descent(B, j) /\ \A z \in ReachedBefore(B, j) : B[j].Z < z) =>
                       \E k \in DOMAIN A : k >= j /\ A[k] = B[j]

\* C36 witness: a second, deeper descent at the place of a hole has been
\* split into a rapid to the depth of the hole and the Linear rest.
C36_DescentSplit ==
    /\ Ran("OptDrillSpeed")
    /\ Len(machine.Positions) = Len(lastRun.before) + 1
    /\ \E k \in 2..(Len(machine.Positions) - 1) :
        /\ machine.Positions[k].State.MoveMode = MoveModeRapid
        /\ machine.Positions[k].Z = -10
        /\ Descent(machine.Positions, k + 1)
        /\ machine.Positions[k + 1].Z = -20
        /\ machine.Positions[k + 1].State.Feedrate = 600
        /\ \E z \in ReachedBefore(machine.Positions, k) : z = -10


\* ======================================================================
\* The rapid moves of a regrouped trace.
\* ======================================================================

\* The highest Z of a trace.
TopOf(ps) == CHOOSE z \in {ps[i].Z : i \in DOMAIN ps} : \A i \in DOMAIN ps : ps[i].Z <= z

\* C37: in the trace of a successful route grouping every Rapid move
\* that changes X or Y is made at the highest Z of the trace, and no
\* Rapid Position lies below Z0.
C37_RapidsAboveStock ==
    (Ran("OptPathGrouping") /\ lastRun.err = "") =>
        LET A == machine.Positions
        IN  \A k \in 2..Len(A) :
                A[k].State.MoveMode = MoveModeRapid =>
                    /\ ~SameXY(A[k - 1], A[k]) =>
                           A[k].Z = TopOf(A) /\ A[k - 1].Z = TopOf(A)
                    /\ A[k].Z >= 0

\* A Rapid move of the regrouped trace goes down from Z0 or above to
\* below Z0 at a place where the trace has not been below Z0 before.
RapidIntoStock ==
    /\ Ran("OptPathGrouping") /\ lastRun.err = ""
    /\ \E k \in 2..Len(machine.Positions) :
        /\ machine.Positions[k].State.MoveMode = MoveModeRapid
        /\ machine.Positions[k].Z < 0 /\ machine.Positions[k - 1].Z >= 0
        /\ \A z \in ReachedBefore(machine.Positions, k) : z >= 0


\* ======================================================================
\* Route grouping and the feedrates of the descents.
\* ======================================================================

\* The feedrates of the Linear moves of a trace that go down from Z0 or
\* above to below Z0 at unchanged X and Y.
DrillFeedrates(ps) ==
    {ps[i].State.Feedrate : i \in {k \in 2..Len(ps) :
        /\ SameXY(ps[k - 1], ps[k]) /\ ps[k - 1].Z >= 0 /\ ps[k].Z < 0
        /\ ps[k].State.MoveMode = MoveModeLinear}}

\* C38: route grouping returns an error whenever the Linear descents of
\* the trace use more than one feedrate, in whatever order they come.
C38_MixedFeedsBail ==
    (Ran("OptPathGrouping") /\ Cardinality(DrillFeedrates(lastRun.before)) > 1)
        => lastRun.err # ""


\* ======================================================================
\* The end of the program and the block-delete mark.
\* ======================================================================

\* C39: once a block with M2 or M30 has been processed, a later block
\* changes neither the machine nor its trace and raises no error.
C39_NothingAfterStop ==
    [][(machine.Completed /\ doc' # doc) =>
          /\ machine' = machine
          /\ vmpc' = "process"]_vars

\* C39 witness: after a move and M2, a tool change without a tool has
\* been processed; the trace has the move only and Process goes on.
C39_IgnoredAfterStop ==
    /\ doc = <<Block(<<G(1), W("X", 10), W("F", 600)>>), Block(<<M(2)>>), Block(<<M(6)>>)>>
    /\ machine.Completed
    /\ vmpc = "process"
    /\ lastRun.err = "" /\ lastRun.before = machine
    /\ Len(machine.Positions) = 2

\* Programs with blocks that carry the block-delete mark, for a machine
\* that ignores the marks and for one that does not.
DeleteBlocks ==
    {[Nodes |-> n, BlockDelete |-> d] :
        n \in {<<G(1), W("X", 10), W("F", 600)>>, <<G(0), W("Z", 50)>>,
               <<M(3), W("S", 10000)>>, <<M(6)>>, <<M(2)>>},
        d \in BOOLEAN}

InitDelete ==
    /\ InitSendWith({<<>>}) /\ pc = "idle"
    /\ machine \in {[Init EXCEPT !.IgnoreBlockDelete = i] : i \in BOOLEAN}
    /\ vmpc = "process" /\ doc = <<>>
    /\ lastMove = [set |-> FALSE]
    /\ lastRun = [ran |-> FALSE]
    /\ GenIdle

NextDelete ==
    \/ \E b \in DeleteBlocks : ProcessBlock(b)
    \/ ProcessReturns

SpecDelete == InitDelete /\ [][NextDelete]_vars

\* C40: a block with the block-delete mark is skipped by the machine as
\* Init leaves it, and is run only by a machine whose IgnoreBlockDelete
\* is set.
C40_MarkedBlockSkipped ==
    [][(doc' # doc /\ doc'[Len(doc')].BlockDelete) =>
          IF machine.IgnoreBlockDelete
          THEN lastRun'.ran \/ machine.Completed
          ELSE machine' = machine /\ vmpc' = "process" /\ ~lastRun'.ran]_vars

====
